---- MODULE Spec2Model ----
(***************************************************************************)
(* A model of the pine-rv compiler: Lexer (src/src/lexer.rs), Parser with  *)
(* its interleaved type checker (src/src/parser.rs) and CodeGen            *)
(* (src/src/codegen.rs).  Each stage is a state machine of its own         *)
(* (SpecLex, SpecParse, SpecGen, SpecExec); the stages' pure helpers are   *)
(* operators computed the way the code computes them.                     *)
(*                                                                         *)
(* Characters are one-character strings, a source text is a sequence of    *)
(* characters; identifier names and string values are character sequences. *)
(***************************************************************************)
EXTENDS Integers, Sequences, FiniteSets, TLC

VARIABLES
  lexer,      \* Lexer { input, pos, line, col }
  tokens,     \* the Vec<Token> built by Lexer::tokenize
  lexResult   \* "running" | "ok" | "error": how tokenize ended
  , lexError  \* the CompileError::LexError returned (NoError while none)
  , parser    \* Parser { tokens, pos, var_types }
  , stmts     \* the Vec<Stmt> built by Parser::parse
  , parseResult \* "running" | "ok" | "error": how parse ended
  , parseError  \* the CompileError::ParseError returned (NoError while none)
  , program   \* the Vec<Stmt> handed to CodeGen::generate
  , codegen   \* the CodeGen
  , next_stmt \* the index (from 1) of the statement generate's loop is at
  , phase     \* "start" | "running" | "done" | "panicked": where generate is
  , asm       \* the text generate returned (its lines; <<>> while none)
  , run       \* 1 for the first compilation of program, 2 for the second
  , prev_asm  \* the text the first compilation returned
  , operator  \* the BinOp of the expression whose code is executed
  , operand_a \* its left operand value
  , operand_b \* its right operand value
  , code      \* the lines gen_expr emitted for it
  , out_reg   \* the register gen_expr returned for it
  , pc        \* the index (from 1) of the next line to execute
  , regs      \* the machine's registers t0..t6

lexVars == <<lexer, tokens, lexResult, lexError>>

parseVars == <<parser, stmts, parseResult, parseError>>

genVars == <<program, codegen, next_stmt, phase, asm, run, prev_asm>>

execVars == <<operator, operand_a, operand_b, code, out_reg, pc, regs>>

vars == <<lexVars, parseVars, genVars, execVars>>

\* the variables of the other stages, which a stage leaves alone
notLex == <<parseVars, genVars, execVars>>

notParse == <<lexVars, genVars, execVars>>

notGen == <<lexVars, parseVars, execVars>>

notExec == <<lexVars, parseVars, genVars>>

----------------------------------------------------------------------------
(* Shared data: Span, CompileError                                         *)

Span(line, col, length) == [line |-> line, col |-> col, length |-> length]

NoSpan == Span(0, 0, 0)

NoError == [kind |-> "None", msg |-> "", span |-> NoSpan, hasSpan |-> FALSE]

LexError(msg, span) == [kind |-> "LexError", msg |-> msg, span |-> span, hasSpan |-> TRUE]

I32Max == 2147483647

I32Min == -2147483647 - 1

----------------------------------------------------------------------------
(* Lexer                                                                   *)

EOFCH == "EOF"

Digits == {"0", "1", "2", "3", "4", "5", "6", "7", "8", "9"}

Letters ==
  {"a", "b", "c", "d", "e", "f", "g", "h", "i", "j", "k", "l", "m", "n", "o",
   "p", "q", "r", "s", "t", "u", "v", "w", "x", "y", "z"}

Whitespace == {" ", "\n", "\t", "\r"}

DigitVal(ch) ==
  CASE ch = "0" -> 0 [] ch = "1" -> 1 [] ch = "2" -> 2 [] ch = "3" -> 3
    [] ch = "4" -> 4 [] ch = "5" -> 5 [] ch = "6" -> 6 [] ch = "7" -> 7
    [] ch = "8" -> 8 [] ch = "9" -> 9

Token(kind, ival, text, span) ==
  [kind |-> kind, ival |-> ival, text |-> text, span |-> span]

NewLexer(input) == [input |-> input, pos |-> 0, line |-> 1, col |-> 1]

LexPeek(lx) == IF lx.pos < Len(lx.input) THEN lx.input[lx.pos + 1] ELSE EOFCH

LexNext(lx) ==
  IF LexPeek(lx) = EOFCH THEN lx
  ELSE IF LexPeek(lx) = "\n"
       THEN [lx EXCEPT !.line = @ + 1, !.col = 1, !.pos = @ + 1]
       ELSE [lx EXCEPT !.col = @ + 1, !.pos = @ + 1]

RECURSIVE SkipToLineEnd(_)
SkipToLineEnd(lx) ==
  IF LexPeek(lx) = EOFCH \/ LexPeek(lx) = "\n" THEN lx
  ELSE SkipToLineEnd(LexNext(lx))

SkipComment(lx) == SkipToLineEnd(LexNext(lx))

RECURSIVE SkipWhitespace(_)
SkipWhitespace(lx) ==
  IF LexPeek(lx) \in Whitespace THEN SkipWhitespace(LexNext(lx))
  ELSE IF LexPeek(lx) = "#" THEN SkipWhitespace(SkipComment(lx))
  ELSE lx

\* str::parse::<i32> on a run of ASCII digits: None (ok = FALSE) on overflow
\* or on the empty string.
RECURSIVE ParseI32Digits(_, _)
ParseI32Digits(digits, acc) ==
  IF digits = <<>> THEN [ok |-> TRUE, val |-> acc]
  ELSE LET d == DigitVal(Head(digits))
       IN  IF acc > (I32Max - d) \div 10 THEN [ok |-> FALSE, val |-> 0]
           ELSE ParseI32Digits(Tail(digits), acc * 10 + d)

ParseI32(digits) ==
  IF digits = <<>> THEN [ok |-> FALSE, val |-> 0] ELSE ParseI32Digits(digits, 0)

RECURSIVE ReadDigits(_, _)
ReadDigits(lx, num) ==
  IF LexPeek(lx) \in Digits THEN ReadDigits(LexNext(lx), Append(num, LexPeek(lx)))
  ELSE [lx |-> lx, text |-> num]

ReadNumber(lx) ==
  LET r == ReadDigits(lx, <<>>)
      p == ParseI32(r.text)
      length == Len(r.text)
  IN  IF p.ok
      THEN [lx |-> r.lx, ok |-> TRUE, val |-> p.val, length |-> length, err |-> NoError]
      ELSE [lx |-> r.lx, ok |-> FALSE, val |-> 0, length |-> length,
            err |-> LexError("Invalid number", Span(lx.line, lx.col, length))]

RECURSIVE ReadIdentChars(_, _)
ReadIdentChars(lx, id) ==
  IF LexPeek(lx) \in (Letters \cup Digits \cup {"_"})
  THEN ReadIdentChars(LexNext(lx), Append(id, LexPeek(lx)))
  ELSE [lx |-> lx, text |-> id]

ReadIdentifier(lx) ==
  LET r == ReadIdentChars(lx, <<>>)
  IN  [lx |-> r.lx, text |-> r.text, length |-> Len(r.text)]

UnescapeChar(escaped) ==
  CASE escaped = "n" -> "\n"
    [] escaped = "t" -> "\t"
    [] escaped = "\"" -> "\""
    [] escaped = "\\" -> "\\"
    [] OTHER -> escaped

\* The loop of read_string; start is the lexer right after the opening quote.
RECURSIVE ReadStringLoop(_, _, _, _, _)
ReadStringLoop(lx, s, length, start_line, start_col) ==
  IF LexPeek(lx) = EOFCH
  THEN [lx |-> lx, ok |-> FALSE, text |-> s, length |-> length,
        err |-> LexError("Unterminated string literal", Span(start_line, start_col, length))]
  ELSE LET ch == LexPeek(lx)
           len1 == length + 1
       IN  IF ch = "\""
           THEN [lx |-> LexNext(lx), ok |-> TRUE, text |-> s, length |-> len1, err |-> NoError]
           ELSE IF ch = "\\"
           THEN LET lx2 == LexNext(lx)
                IN  IF LexPeek(lx2) # EOFCH
                    THEN ReadStringLoop(LexNext(lx2), Append(s, UnescapeChar(LexPeek(lx2))),
                                        len1 + 1, start_line, start_col)
                    ELSE [lx |-> lx2, ok |-> FALSE, text |-> s, length |-> len1,
                          err |-> LexError("Unterminated escape in string",
                                           Span(start_line, start_col, len1))]
           ELSE ReadStringLoop(LexNext(lx), Append(s, ch), len1, start_line, start_col)

\* read_string with start_col taken after the opening quote
ReadStringFromCol(lx) == ReadStringLoop(lx, <<>>, 1, lx.line, lx.col)

ReadString(lx) == ReadStringLoop(lx, <<>>, 1, lx.line, lx.col - 1)

KeywordKind(id) ==
  CASE id = <<"e", "x", "i", "t">> -> "Exit"
    [] id = <<"p", "r", "i", "n", "t">> -> "Print"
    [] id = <<"p", "r", "i", "n", "t", "l", "n">> -> "PrintLn"
    [] OTHER -> "Ident"

SingleCharKind(ch) ==
  CASE ch = "+" -> "Plus"
    [] ch = "-" -> "Minus"
    [] ch = "*" -> "Star"
    [] ch = "/" -> "Slash"
    [] ch = "=" -> "Assign"
    [] ch = ";" -> "Semicolon"
    [] ch = "(" -> "LParen"
    [] ch = ")" -> "RParen"
    [] ch = "!" -> "Bang"

SingleChars == {"+", "-", "*", "/", "=", ";", "(", ")", "!"}

LexOk(lx, kind, ival, text, span) ==
  [lx |-> lx, ok |-> TRUE, token |-> Token(kind, ival, text, span), err |-> NoError]

LexFail(lx, err) ==
  [lx |-> lx, ok |-> FALSE, token |-> Token("Eof", 0, <<>>, NoSpan), err |-> err]

\* Lexer::next_token: [lx, ok, token, err]
NextToken(lx0) ==
  LET lx == SkipWhitespace(lx0)
      start_line == lx.line
      start_col == lx.col
      ch == LexPeek(lx)
  IN  IF ch = EOFCH THEN LexOk(lx, "Eof", 0, <<>>, Span(start_line, start_col, 0))
      ELSE IF ch \in SingleChars
      THEN LexOk(LexNext(lx), SingleCharKind(ch), 0, <<>>, Span(start_line, start_col, 1))
      ELSE IF ch = "<"
      THEN IF LexPeek(LexNext(lx)) = "="
           THEN LexOk(LexNext(LexNext(lx)), "LTE", 0, <<>>, Span(start_line, start_col, 2))
           ELSE LexOk(LexNext(lx), "LT", 0, <<>>, Span(start_line, start_col, 1))
      ELSE IF ch = ">"
      THEN IF LexPeek(LexNext(lx)) = "="
           THEN LexOk(LexNext(LexNext(lx)), "GTE", 0, <<>>, Span(start_line, start_col, 2))
           ELSE LexOk(LexNext(lx), "GT", 0, <<>>, Span(start_line, start_col, 1))
      ELSE IF ch = "\""
      THEN LET r == ReadString(LexNext(lx))
           IN  IF r.ok
               THEN LexOk(r.lx, "String", 0, r.text, Span(start_line, start_col, r.length))
               ELSE LexFail(r.lx, r.err)
      ELSE IF ch \in Digits
      THEN LET r == ReadNumber(lx)
           IN  IF r.ok
               THEN LexOk(r.lx, "Int", r.val, <<>>, Span(start_line, start_col, r.length))
               ELSE LexFail(r.lx, r.err)
      ELSE IF ch \in Letters
      THEN LET r == ReadIdentifier(lx)
               kind == KeywordKind(r.text)
           IN  LexOk(r.lx, kind, 0, IF kind = "Ident" THEN r.text ELSE <<>>,
                     Span(start_line, start_col, r.length))
      ELSE LexFail(lx, LexError("Unexpected character", Span(start_line, start_col, 1)))

----------------------------------------------------------------------------
(* Parser: Expr, Stmt, Type                                                *)

TypeInt == "Int"

TypeString == "String"

NoExpr == [tag |-> "None"]

ExprInt(n) == [tag |-> "Int", val |-> n]

ExprVar(name) == [tag |-> "Var", name |-> name]

ExprString(s) == [tag |-> "String", value |-> s]

ExprBinOp(op, left, right) == [tag |-> "BinOp", op |-> op, left |-> left, right |-> right]

ExprUnaryOp(op, expr) == [tag |-> "UnaryOp", op |-> op, expr |-> expr]

StmtAssign(var, expr) == [tag |-> "Assign", var |-> var, expr |-> expr]

StmtPrint(expr) == [tag |-> "Print", expr |-> expr]

\* PrintLn { expr: Option<Expr> }: NoExpr is None
StmtPrintLn(expr) == [tag |-> "PrintLn", expr |-> expr]

\* Exit(Option<Expr>): NoExpr is None
StmtExit(expr) == [tag |-> "Exit", expr |-> expr]

NoStmt == [tag |-> "None"]

ParseError(msg, span) == [kind |-> "ParseError", msg |-> msg, span |-> span, hasSpan |-> TRUE]

ParseErrorNoSpan(msg) == [kind |-> "ParseError", msg |-> msg, span |-> NoSpan, hasSpan |-> FALSE]

\* HashMap<String, Type> as a function on the set of its keys
EmptyMap == <<>>

MapInsert(m, k, v) == [n \in DOMAIN m \cup {k} |-> IF n = k THEN v ELSE m[n]]

TypeOk(t) == [ok |-> TRUE, type |-> t, err |-> NoError]

TypeErr(err) == [ok |-> FALSE, type |-> TypeInt, err |-> err]

\* Expr::get_type
RECURSIVE GetType(_, _)
GetType(expr, var_types) ==
  CASE expr.tag = "Int" -> TypeOk(TypeInt)
    [] expr.tag = "String" -> TypeOk(TypeString)
    [] expr.tag = "Var" ->
         IF expr.name \in DOMAIN var_types THEN TypeOk(var_types[expr.name])
         ELSE TypeErr(ParseErrorNoSpan("Unknown variable"))
    [] expr.tag = "BinOp" ->
         LET left_type == GetType(expr.left, var_types)
         IN  IF ~left_type.ok THEN left_type
             ELSE LET right_type == GetType(expr.right, var_types)
                  IN  IF ~right_type.ok THEN right_type
                      ELSE IF left_type.type # TypeInt \/ right_type.type # TypeInt
                      THEN TypeErr(ParseErrorNoSpan("Binary operation requires integer operands"))
                      ELSE TypeOk(TypeInt)
    [] expr.tag = "UnaryOp" ->
         LET expr_type == GetType(expr.expr, var_types)
         IN  IF ~expr_type.ok THEN expr_type
             ELSE IF expr_type.type # TypeInt
             THEN TypeErr(ParseErrorNoSpan("Unary operation requires an integer operand"))
             ELSE TypeOk(TypeInt)

\* enum Prec, in its derived Ord order
PrecLowest == 0

PrecComp == 1

PrecAddSub == 2

PrecMulDiv == 3

PrecUnary == 4

EofToken == Token("Eof", 0, <<>>, NoSpan)

\* Parser::peek at position pos (0-based, as in the source)
PeekAt(toks, pos) == IF pos < Len(toks) THEN toks[pos + 1] ELSE EofToken

\* Parser::next
NextPos(toks, pos) == IF pos < Len(toks) THEN pos + 1 ELSE pos

\* Parser::precedence
Precedence(token) ==
  CASE token.kind \in {"Star", "Slash"} -> PrecMulDiv
    [] token.kind \in {"Plus", "Minus"} -> PrecAddSub
    [] token.kind \in {"LT", "LTE", "GT", "GTE"} -> PrecComp
    [] OTHER -> PrecLowest

CompTokens == {"GT", "GTE", "LT", "LTE"}

\* the match of the climbing loop: the BinOp of an operator token
BinOpOfToken(kind) ==
  CASE kind = "Plus" -> "Add"
    [] kind = "Minus" -> "Sub"
    [] kind = "Star" -> "Mul"
    [] kind = "Slash" -> "Div"
    [] kind = "GT" -> "GT"
    [] kind = "GTE" -> "GTE"
    [] kind = "LT" -> "LT"
    [] kind = "LTE" -> "LTE"
    [] OTHER -> "break"

ExprOk(expr, pos) == [ok |-> TRUE, expr |-> expr, pos |-> pos, err |-> NoError]

ExprErr(err, pos) == [ok |-> FALSE, expr |-> NoExpr, pos |-> pos, err |-> err]

RECURSIVE ParseExpr(_, _, _)
RECURSIVE ParseExprPrec(_, _, _, _)
RECURSIVE ClimbLoop(_, _, _, _, _)
RECURSIVE ParsePrimary(_, _, _)

\* parse_primary without the contains_key test of its Ident arm
ParsePrimaryUnchecked(toks, var_types, pos) ==
  LET tok == PeekAt(toks, pos)
  IN  CASE tok.kind = "Int" -> ExprOk(ExprInt(tok.ival), NextPos(toks, pos))
        [] tok.kind = "Ident" -> ExprOk(ExprVar(tok.text), NextPos(toks, pos))
        [] tok.kind = "LParen" ->
             LET r == ParseExpr(toks, var_types, NextPos(toks, pos))
             IN  IF ~r.ok THEN r
                 ELSE IF PeekAt(toks, r.pos).kind = "RParen"
                 THEN ExprOk(r.expr, NextPos(toks, r.pos))
                 ELSE ExprErr(ParseError("Expected ')'", PeekAt(toks, r.pos).span), r.pos)
        [] tok.kind = "String" -> ExprOk(ExprString(tok.text), NextPos(toks, pos))
        [] OTHER -> ExprErr(ParseError("Unexpected token", tok.span), pos)

\* Parser::parse_primary
ParsePrimary(toks, var_types, pos) ==
  LET tok == PeekAt(toks, pos)
  IN  CASE tok.kind = "Int" -> ExprOk(ExprInt(tok.ival), NextPos(toks, pos))
        [] tok.kind = "Ident" ->
             IF tok.text \notin DOMAIN var_types
             THEN ExprErr(ParseErrorNoSpan("Variable not found"), pos)
             ELSE ExprOk(ExprVar(tok.text), NextPos(toks, pos))
        [] tok.kind = "LParen" ->
             LET r == ParseExpr(toks, var_types, NextPos(toks, pos))
             IN  IF ~r.ok THEN r
                 ELSE IF PeekAt(toks, r.pos).kind = "RParen"
                 THEN ExprOk(r.expr, NextPos(toks, r.pos))
                 ELSE ExprErr(ParseError("Expected ')'", PeekAt(toks, r.pos).span), r.pos)
        [] tok.kind = "String" -> ExprOk(ExprString(tok.text), NextPos(toks, pos))
        [] OTHER -> ExprErr(ParseError("Unexpected token", tok.span), pos)

\* the while loop of Parser::parse_expr_prec
ClimbLoop(toks, var_types, pos, left, prec) ==
  IF ~(Precedence(PeekAt(toks, pos)) > prec) THEN ExprOk(left, pos)
  ELSE LET op_token == PeekAt(toks, pos)
           op == BinOpOfToken(op_token.kind)
       IN  IF op = "break" THEN ExprOk(left, pos)
           ELSE LET pos1 == NextPos(toks, pos)
                    \* self.next() has consumed the operator: the precedence is
                    \* that of the token after it
                    right == ParseExprPrec(toks, var_types, pos1,
                                           Precedence(PeekAt(toks, pos1)))
                IN  IF ~right.ok THEN right
                    ELSE LET is_comp == op \in {"GT", "GTE", "LT", "LTE"}
                             is_next_comp == PeekAt(toks, right.pos).kind \in CompTokens
                         IN  IF is_comp /\ is_next_comp
                             THEN ExprErr(ParseError("Chained comparisons are not allowed",
                                                     PeekAt(toks, right.pos).span), right.pos)
                             ELSE ClimbLoop(toks, var_types, right.pos,
                                            ExprBinOp(op, left, right.expr), prec)

\* Parser::parse_expr_prec
ParseExprPrec(toks, var_types, pos, prec) ==
  LET kind == PeekAt(toks, pos).kind
      first ==
        CASE kind = "Bang" ->
               LET r == ParseExprPrec(toks, var_types, NextPos(toks, pos), PrecUnary)
               IN  IF r.ok THEN ExprOk(ExprUnaryOp("Not", r.expr), r.pos) ELSE r
          [] kind = "Minus" ->
               LET r == ParseExprPrec(toks, var_types, NextPos(toks, pos), PrecUnary)
               IN  IF r.ok THEN ExprOk(ExprUnaryOp("Neg", r.expr), r.pos) ELSE r
          [] OTHER -> ParsePrimary(toks, var_types, pos)
  IN  IF ~first.ok THEN first
      ELSE ClimbLoop(toks, var_types, first.pos, first.expr, prec)

\* Parser::parse_unary
ParseUnary(toks, var_types, pos) == ParseExprPrec(toks, var_types, pos, PrecLowest)

\* Parser::parse_expr
ParseExpr(toks, var_types, pos) ==
  IF PeekAt(toks, pos).kind \in {"Bang", "Minus"}
  THEN ParseUnary(toks, var_types, pos)
  ELSE ParseExprPrec(toks, var_types, pos, PrecLowest)

StmtOk(stmt, pos, var_types) ==
  [ok |-> TRUE, stmt |-> stmt, pos |-> pos, var_types |-> var_types, err |-> NoError]

StmtErr(err, pos, var_types) ==
  [ok |-> FALSE, stmt |-> NoStmt, pos |-> pos, var_types |-> var_types, err |-> err]

\* the optional ';' after a statement
SkipSemicolon(toks, pos) ==
  IF PeekAt(toks, pos).kind = "Semicolon" THEN NextPos(toks, pos) ELSE pos

\* Parser::parse_statement, the Ident arm
ParseAssign(toks, var_types, pos) ==
  LET var == PeekAt(toks, pos).text
      pos1 == NextPos(toks, pos)
  IN  IF PeekAt(toks, pos1).kind = "Assign"
      THEN LET r == ParseExpr(toks, var_types, NextPos(toks, pos1))
           IN  IF ~r.ok THEN StmtErr(r.err, r.pos, var_types)
               ELSE LET expr_type == GetType(r.expr, var_types)
                    IN  IF ~expr_type.ok THEN StmtErr(expr_type.err, r.pos, var_types)
                        ELSE StmtOk(StmtAssign(var, r.expr), SkipSemicolon(toks, r.pos),
                                    MapInsert(var_types, var, expr_type.type))
      ELSE StmtErr(ParseError("Expected '='", PeekAt(toks, pos1).span), pos1, var_types)

\* Parser::parse_statement, the Exit arm
ParseExit(toks, var_types, pos) ==
  LET pos1 == NextPos(toks, pos)
  IN  IF PeekAt(toks, pos1).kind \notin {"Semicolon", "Eof"}
      THEN LET r == ParseExpr(toks, var_types, pos1)
           IN  IF ~r.ok THEN StmtErr(r.err, r.pos, var_types)
               ELSE LET expr_type == GetType(r.expr, var_types)
                    IN  IF ~expr_type.ok THEN StmtErr(expr_type.err, r.pos, var_types)
                        ELSE IF expr_type.type # TypeInt
                        THEN StmtErr(ParseError("Exit code must be an integer",
                                                PeekAt(toks, r.pos).span), r.pos, var_types)
                        ELSE StmtOk(StmtExit(r.expr), SkipSemicolon(toks, r.pos), var_types)
      ELSE StmtOk(StmtExit(NoExpr), SkipSemicolon(toks, pos1), var_types)

\* Parser::parse_statement, the Print | PrintLn arm
ParsePrint(toks, var_types, pos) ==
  LET is_newline == PeekAt(toks, pos).kind = "PrintLn"
      pos1 == NextPos(toks, pos)
  IN  IF is_newline /\ PeekAt(toks, pos1).kind \in {"Semicolon", "Eof"}
      THEN StmtOk(StmtPrintLn(NoExpr), SkipSemicolon(toks, pos1), var_types)
      ELSE LET r == ParseExpr(toks, var_types, pos1)
           IN  IF ~r.ok THEN StmtErr(r.err, r.pos, var_types)
               ELSE StmtOk(IF is_newline THEN StmtPrintLn(r.expr) ELSE StmtPrint(r.expr),
                           SkipSemicolon(toks, r.pos), var_types)

\* Parser::parse_statement
ParseStatement(toks, var_types, pos) ==
  LET kind == PeekAt(toks, pos).kind
  IN  CASE kind = "Ident" -> ParseAssign(toks, var_types, pos)
        [] kind = "Exit" -> ParseExit(toks, var_types, pos)
        [] kind \in {"Print", "PrintLn"} -> ParsePrint(toks, var_types, pos)
        [] OTHER -> StmtErr(ParseError("Unexpected token", PeekAt(toks, pos).span), pos, var_types)

NewParser(toks) == [tokens |-> toks, pos |-> 0, var_types |-> EmptyMap]

\* the names an expression refers to
RECURSIVE VarsOf(_)
VarsOf(e) ==
  CASE e.tag = "Var" -> {e.name}
    [] e.tag = "BinOp" -> VarsOf(e.left) \cup VarsOf(e.right)
    [] e.tag = "UnaryOp" -> VarsOf(e.expr)
    [] OTHER -> {}

----------------------------------------------------------------------------
(* CodeGen                                                                 *)
(*                                                                         *)
(* A line of output is a record: the mnemonic or directive, its registers, *)
(* its immediate, its label and (for .asciiz) its text; the trailing       *)
(* '# ...' comments of the emitted lines are left out.  The record cg is   *)
(* the CodeGen struct; its field panic is the message of the panic! that   *)
(* aborted generate ("" while none: nothing changes after a panic), and    *)
(* its fields allocs, frees, held and live_alloc record the calls of       *)
(* alloc_reg and free_reg made so far.                                     *)

NoLabel == [kind |-> "", n |-> 0]

Label(kind, n) == [kind |-> kind, n |-> n]

DecimalDigits == <<"0", "1", "2", "3", "4", "5", "6", "7", "8", "9">>

\* format!("{}", n) of a counter or a map length
RECURSIVE Decimal(_)
Decimal(n) ==
  IF n < 10 THEN <<DecimalDigits[n + 1]>>
  ELSE Decimal(n \div 10) \o <<DecimalDigits[(n % 10) + 1]>>

\* the name a label is written with in the output
LabelText(label) ==
  CASE label.kind = "W_start" -> <<"W">> \o Decimal(label.n) \o <<"_", "s", "t", "a", "r", "t">>
    [] label.kind = "W_end" -> <<"W">> \o Decimal(label.n) \o <<"_", "e", "n", "d">>
    [] label.kind = "IF_else" -> <<"I", "F">> \o Decimal(label.n) \o <<"_", "e", "l", "s", "e">>
    [] label.kind = "IF_end" -> <<"I", "F">> \o Decimal(label.n) \o <<"_", "e", "n", "d">>
    [] label.kind = "str" -> <<"s", "t", "r">> \o Decimal(label.n)
    [] label.kind = "main" -> <<"m", "a", "i", "n">>

Ins(op, rd, rs1, rs2, imm, label) ==
  [op |-> op, rd |-> rd, rs1 |-> rs1, rs2 |-> rs2, imm |-> imm, label |-> label, text |-> <<>>]

Blank == Ins("", "", "", "", 0, NoLabel)

Directive(name) == Ins(name, "", "", "", 0, NoLabel)

LabelDef(label) == Ins("label:", "", "", "", 0, label)

\* a line that is only a comment
Comment(words) == [Ins("#", "", "", "", 0, NoLabel) EXCEPT !.text = words]

\* a line with the trailing comment that tells what it accesses
WithComment(line, words) == [line EXCEPT !.text = words]

LoadVariable(reg, offset, var) ==
  WithComment(Ins("lw", reg, "sp", "", offset, NoLabel), <<"# Load variable">> \o var)

StoreVariable(reg, offset, var) ==
  WithComment(Ins("sw", "", reg, "sp", offset, NoLabel), <<"# Store variable">> \o var)

SpillRegister(victim, stack_loc) ==
  WithComment(Ins("sw", "", victim, "sp", stack_loc, NoLabel), <<"# Spill", victim, "to stack">>)

Asciiz(label, escaped) == [Ins(".asciiz", "", "", "", 0, label) EXCEPT !.text = escaped]

RegPoolInit == <<"t0", "t1", "t2", "t3", "t4", "t5", "t6">>

TempStackOffsetInit == 128

FrameSize == 512

SlotSize == 4

\* CodeGen::new; beside the fields of the struct, the record keeps what has
\* happened: the panic reached, the calls of alloc_reg and free_reg counted,
\* the registers allocated and not yet freed (held), whether alloc_reg has
\* returned a held register (live_alloc) or taken the spill path (spilled),
\* and whether reg_pool and held have made up t0..t6 after every call so far
\* (partition)
NewCodeGen ==
  [strings |-> EmptyMap, vars |-> EmptyMap, var_types |-> EmptyMap, var_offset |-> 0,
   output |-> <<>>, reg_pool |-> RegPoolInit, while_counter |-> 0, if_counter |-> 0,
   temp_stack_offset |-> TempStackOffsetInit,
   panic |-> "", allocs |-> 0, frees |-> 0, held |-> <<>>, live_alloc |-> FALSE,
   spilled |-> FALSE, partition |-> TRUE]

Panicked(cg) == cg.panic # ""

\* In the operators below a step's outcome is named by binding it in a
\* one-element set, CHOOSE v \in {e : x \in {step}} : TRUE being e with x the
\* value of step: the step is taken once, and x is what it left behind.

\* panic!(msg): generate is aborted
Panic(cg, msg) ==
  CHOOSE next \in {IF Panicked(c) THEN c ELSE [c EXCEPT !.panic = msg] : c \in {cg}} : TRUE

\* self.output.push(line)
Emit(cg, line) ==
  CHOOSE next \in {IF Panicked(c) THEN c ELSE [c EXCEPT !.output = Append(@, line)] :
                     c \in {cg}} : TRUE

\* self.output.push(..) once per line of lines, in order
EmitAll(cg, lines) ==
  CHOOSE next \in {IF Panicked(c) THEN c ELSE [c EXCEPT !.output = @ \o lines] :
                     c \in {cg}} : TRUE

\* CodeGen::nl
Nl(cg) == Emit(cg, Blank)

InSeq(x, s) == \E i \in 1..Len(s) : s[i] = x

\* s without its last occurrence of x
RemoveOne(s, x) ==
  IF ~InSeq(x, s) THEN s
  ELSE LET i == CHOOSE k \in 1..Len(s) : s[k] = x /\ \A j \in (k + 1)..Len(s) : s[j] # x
       IN  SubSeq(s, 1, i - 1) \o SubSeq(s, i + 1, Len(s))

\* pool and held together are t0..t6, each once
IsPartition(pool, held) ==
  /\ Len(pool) + Len(held) = Len(RegPoolInit)
  /\ \A i \in 1..Len(RegPoolInit) : InSeq(RegPoolInit[i], pool \o held)

\* CodeGen::alloc_reg: [cg, reg]
AllocReg(cg) ==
  CHOOSE next \in {
    IF Panicked(c) THEN [cg |-> c, reg |-> ""]
    ELSE IF c.reg_pool # <<>>
    THEN LET reg == c.reg_pool[Len(c.reg_pool)]
         IN  [cg |-> [c EXCEPT !.reg_pool = SubSeq(@, 1, Len(@) - 1),
                               !.allocs = @ + 1,
                               !.live_alloc = @ \/ InSeq(reg, c.held),
                               !.held = Append(@, reg),
                               !.partition = @ /\ IsPartition(SubSeq(c.reg_pool, 1,
                                                                     Len(c.reg_pool) - 1),
                                                              Append(c.held, reg))],
              reg |-> reg]
    ELSE LET victim == "t0"
             stack_loc == c.temp_stack_offset
         IN  [cg |-> [c EXCEPT !.temp_stack_offset = @ + SlotSize,
                               !.output = Append(@, SpillRegister(victim, stack_loc)),
                               !.allocs = @ + 1,
                               !.live_alloc = @ \/ InSeq(victim, c.held),
                               !.held = Append(@, victim),
                               !.spilled = TRUE],
              reg |-> victim]
    : c \in {cg}} : TRUE

\* free_reg pushing the register twice
FreeRegTwice(cg, reg) ==
  CHOOSE next \in {
    IF Panicked(c) THEN c
    ELSE [c EXCEPT !.reg_pool = Append(Append(@, reg), reg),
                   !.frees = @ + 1,
                   !.held = RemoveOne(@, reg),
                   !.partition = @ /\ IsPartition(Append(Append(c.reg_pool, reg), reg),
                                                  RemoveOne(c.held, reg))]
    : c \in {cg}} : TRUE

\* CodeGen::free_reg
FreeReg(cg, reg) ==
  CHOOSE next \in {
    IF Panicked(c) THEN c
    ELSE [c EXCEPT !.reg_pool = Append(@, reg),
                   !.frees = @ + 1,
                   !.held = RemoveOne(@, reg),
                   !.partition = @ /\ IsPartition(Append(c.reg_pool, reg),
                                                  RemoveOne(c.held, reg))]
    : c \in {cg}} : TRUE

\* ensure_string_label naming every label str0
EnsureStringLabelStr0(cg, s) ==
  IF Panicked(cg) THEN [cg |-> cg, label |-> NoLabel]
  ELSE LET cg1 == IF s \in DOMAIN cg.strings THEN cg
                  ELSE [cg EXCEPT !.strings = MapInsert(@, s, Label("str", 0))]
       IN  [cg |-> cg1, label |-> cg1.strings[s]]

\* CodeGen::ensure_string_label: [cg, label]; the label str<n> is Label("str", n)
EnsureStringLabel(cg, s) ==
  IF Panicked(cg) THEN [cg |-> cg, label |-> NoLabel]
  ELSE LET cg1 == IF s \in DOMAIN cg.strings THEN cg
                  ELSE [cg EXCEPT !.strings =
                          MapInsert(@, s, Label("str", Cardinality(DOMAIN cg.strings)))]
       IN  [cg |-> cg1, label |-> cg1.strings[s]]

\* CodeGen::infer_type: [cg, type]
InferType(cg, expr) ==
  CASE expr.tag = "Int" -> [cg |-> cg, type |-> TypeInt]
    [] expr.tag = "String" -> [cg |-> cg, type |-> TypeString]
    [] expr.tag = "Var" ->
         IF expr.name \in DOMAIN cg.var_types
         THEN [cg |-> cg, type |-> cg.var_types[expr.name]]
         ELSE [cg |-> Panic(cg, "Compiler: Variable type not tracked"), type |-> TypeInt]
    [] expr.tag = "BinOp" -> [cg |-> cg, type |-> TypeInt]
    [] expr.tag = "UnaryOp" -> [cg |-> cg, type |-> TypeInt]

PrintableChars ==
  Letters \cup Digits \cup
  {" ", "!", "#", "$", "%", "&", "'", "(", ")", "*", "+", ",", "-", ".", "/", ":", ";",
   "<", "=", ">", "?", "@", "[", "]", "^", "_", "{", "|", "}", "~"}

\* CodeGen::escape_asciz on one character; a character that is neither
\* printable nor one of the five named ones becomes \\x and its two hex digits
EscapeChar(c) ==
  CASE c = "\\" -> <<"\\", "\\">>
    [] c = "\"" -> <<"\\", "\"">>
    [] c = "\n" -> <<"\\", "n">>
    [] c = "\t" -> <<"\\", "t">>
    [] c = "\r" -> <<"\\", "r">>
    [] c \in PrintableChars -> <<c>>
    [] OTHER -> <<"\\", "\\", "x", "hex", c>>

\* CodeGen::escape_asciz
RECURSIVE EscapeAsciz(_)
EscapeAsciz(s) == IF s = <<>> THEN <<>> ELSE EscapeChar(Head(s)) \o EscapeAsciz(Tail(s))

\* every operator lowered as the LT arm lowers it
BinOpLinesAsLT(op, result_reg, left_reg, right_reg) ==
  <<Ins("slt", result_reg, left_reg, right_reg, 0, NoLabel),
    Ins("sltu", result_reg, "x0", result_reg, 0, NoLabel)>>

\* the lines gen_expr pushes for a BinOp, given its three registers
BinOpLines(op, result_reg, left_reg, right_reg) ==
  LET rrr(name, a, b) == Ins(name, result_reg, a, b, 0, NoLabel)
      normalize == Ins("sltu", result_reg, "x0", result_reg, 0, NoLabel)
      xori1 == Ins("xori", result_reg, result_reg, "", 1, NoLabel)
  IN  CASE op = "Add" -> <<rrr("add", left_reg, right_reg)>>
        [] op = "Sub" -> <<rrr("sub", left_reg, right_reg)>>
        [] op = "Mul" -> <<rrr("mul", left_reg, right_reg)>>
        [] op = "Div" -> <<rrr("div", left_reg, right_reg)>>
        [] op = "LT" -> <<rrr("slt", left_reg, right_reg), normalize>>
        [] op = "LTE" -> <<rrr("slt", right_reg, left_reg), xori1, normalize>>
        [] op = "GT" -> <<rrr("slt", right_reg, left_reg), normalize>>
        [] op = "GTE" -> <<rrr("slt", left_reg, right_reg), xori1, normalize>>
        [] op = "Eq" -> <<rrr("sub", left_reg, right_reg), normalize, xori1, normalize>>
        [] op = "Neq" -> <<rrr("sub", left_reg, right_reg), normalize, normalize>>
        [] op = "AND" -> <<rrr("and", left_reg, right_reg), normalize>>
        [] op = "OR" -> <<rrr("or", left_reg, right_reg), normalize>>
        [] op = "BitAnd" -> <<rrr("and", left_reg, right_reg)>>
        [] op = "BitOr" -> <<rrr("or", left_reg, right_reg)>>
        [] op = "BitXor" -> <<rrr("xor", left_reg, right_reg)>>
        [] op = "LShift" -> <<rrr("sll", left_reg, right_reg)>>
        [] op = "RShift" -> <<rrr("sra", left_reg, right_reg)>>

\* the line gen_expr pushes for a UnaryOp on register reg
UnaryOpLine(op, reg) ==
  CASE op = "Not" -> Ins("sltiu", reg, reg, "", 1, NoLabel)
    [] op = "Neg" -> Ins("sub", reg, "x0", reg, 0, NoLabel)
    [] op = "BitNot" -> Ins("not", reg, reg, "", 0, NoLabel)

\* CodeGen::gen_expr: [cg, reg]
RECURSIVE GenExpr(_, _)
GenExpr(cg, expr) ==
  CASE expr.tag = "Int" ->
         CHOOSE v \in {[cg |-> Emit(a.cg, Ins("li", a.reg, "", "", expr.val, NoLabel)),
                        reg |-> a.reg] : a \in {AllocReg(cg)}} : TRUE
    [] expr.tag = "Var" ->
         IF expr.name \in DOMAIN cg.vars
         THEN CHOOSE v \in {[cg |-> Emit(a.cg, LoadVariable(a.reg, a.cg.vars[expr.name],
                                                            expr.name)),
                             reg |-> a.reg] : a \in {AllocReg(cg)}} : TRUE
         ELSE [cg |-> Panic(cg, "Compiler: Variable not stored"), reg |-> ""]
    [] expr.tag = "BinOp" ->
         CHOOSE v \in {
           IF Panicked(left.cg) THEN left
           ELSE CHOOSE v1 \in {
                  IF Panicked(right.cg) THEN right
                  ELSE CHOOSE v2 \in {
                         [cg |-> FreeReg(FreeReg(EmitAll(result.cg,
                                                         BinOpLines(expr.op, result.reg,
                                                                    left.reg, right.reg)),
                                                 left.reg),
                                         right.reg),
                          reg |-> result.reg]
                         : result \in {AllocReg(right.cg)}} : TRUE
                  : right \in {GenExpr(left.cg, expr.right)}} : TRUE
           : left \in {GenExpr(cg, expr.left)}} : TRUE
    [] expr.tag = "String" ->
         CHOOSE v \in {
           CHOOSE v1 \in {[cg |-> Emit(l.cg, Ins("la", a.reg, "", "", 0, l.label)),
                           reg |-> a.reg]
                          : l \in {EnsureStringLabel(a.cg, expr.value)}} : TRUE
           : a \in {AllocReg(cg)}} : TRUE
    [] expr.tag = "UnaryOp" ->
         CHOOSE v \in {
           IF Panicked(r.cg) THEN r
           ELSE [cg |-> Emit(r.cg, UnaryOpLine(expr.op, r.reg)), reg |-> r.reg]
           : r \in {GenExpr(cg, expr.expr)}} : TRUE

\* the three lines that print a newline character
NewlineLines ==
  <<Ins("li", "a1", "", "", 10, NoLabel), Ins("li", "a0", "", "", 11, NoLabel), Directive("ecall")>>

\* gen_print taking the Int arm whatever infer_type gives
GenPrintAsInt(cg, expr, newline) ==
  LET r == GenExpr(cg, expr)
      printed == FreeReg(EmitAll(r.cg, <<Ins("mv", "a1", r.reg, "", 0, NoLabel),
                                         Ins("li", "a0", "", "", 1, NoLabel),
                                         Directive("ecall")>>), r.reg)
  IN  IF newline THEN EmitAll(printed, NewlineLines) ELSE printed

\* CodeGen::gen_print
GenPrint(cg, expr, newline) ==
  LET printed ==
        CHOOSE v \in {
          IF t.type = TypeString
          THEN IF expr.tag = "String"
               THEN CHOOSE v1 \in {
                      EmitAll(l.cg, <<Ins("la", "a1", "", "", 0, l.label),
                                      Ins("li", "a0", "", "", 4, NoLabel), Directive("ecall")>>)
                      : l \in {EnsureStringLabel(t.cg, expr.value)}} : TRUE
               ELSE IF expr.tag = "Var"
               THEN CHOOSE v2 \in {
                      FreeReg(EmitAll(r.cg, <<Ins("mv", "a1", r.reg, "", 0, NoLabel),
                                              Ins("li", "a0", "", "", 4, NoLabel),
                                              Directive("ecall")>>), r.reg)
                      : r \in {GenExpr(t.cg, expr)}} : TRUE
               ELSE t.cg
          ELSE CHOOSE v3 \in {
                 FreeReg(EmitAll(r.cg, <<Ins("mv", "a1", r.reg, "", 0, NoLabel),
                                         Ins("li", "a0", "", "", 1, NoLabel),
                                         Directive("ecall")>>), r.reg)
                 : r \in {GenExpr(t.cg, expr)}} : TRUE
          : t \in {InferType(cg, expr)}} : TRUE
  IN  IF newline THEN EmitAll(printed, NewlineLines) ELSE printed

\* Stmt::While and Stmt::If, which gen_stmt lowers
StmtWhile(condition, body) == [tag |-> "While", condition |-> condition, body |-> body]

\* else_body: Option<Vec<Stmt>>, has_else is is_some()
StmtIf(condition, then_body, has_else, else_body) ==
  [tag |-> "If", condition |-> condition, then_body |-> then_body,
   has_else |-> has_else, else_body |-> else_body]

RECURSIVE GenStmt(_, _)
RECURSIVE GenStmts(_, _)

\* for stmt in body { self.gen_stmt(stmt); }
GenStmts(cg, body) ==
  IF body = <<>> THEN cg
  ELSE CHOOSE v \in {IF Panicked(cg1) THEN cg1 ELSE GenStmts(cg1, Tail(body))
                     : cg1 \in {GenStmt(cg, Head(body))}} : TRUE

\* the Assign arm taking a new slot at every assignment
GenAssignFreshSlot(cg, stmt) ==
  LET r == GenExpr(cg, stmt.expr)
      t == IF Panicked(r.cg) THEN [cg |-> r.cg, type |-> TypeInt]
           ELSE InferType(r.cg, stmt.expr)
      cg1 == IF Panicked(t.cg) THEN t.cg
             ELSE [t.cg EXCEPT !.var_types = MapInsert(@, stmt.var, t.type)]
      cg2 == IF Panicked(cg1) THEN cg1
             ELSE [cg1 EXCEPT !.vars = MapInsert(@, stmt.var, cg1.var_offset),
                              !.var_offset = @ + SlotSize]
      cg3 == IF Panicked(cg2) THEN cg2
             ELSE Emit(cg2, StoreVariable(r.reg, cg2.vars[stmt.var], stmt.var))
  IN  FreeReg(cg3, r.reg)

\* the Assign arm without its self.var_types.insert(..)
GenAssignUntyped(cg, stmt) ==
  LET r == GenExpr(cg, stmt.expr)
      cg2 == IF Panicked(r.cg) \/ stmt.var \in DOMAIN r.cg.vars THEN r.cg
             ELSE [r.cg EXCEPT !.vars = MapInsert(@, stmt.var, r.cg.var_offset),
                               !.var_offset = @ + SlotSize]
      cg3 == IF Panicked(cg2) THEN cg2
             ELSE Emit(cg2, StoreVariable(r.reg, cg2.vars[stmt.var], stmt.var))
  IN  FreeReg(cg3, r.reg)

\* the Assign arm without its free_reg(reg)
GenAssignLeaking(cg, stmt) ==
  LET r == GenExpr(cg, stmt.expr)
      t == IF Panicked(r.cg) THEN [cg |-> r.cg, type |-> TypeInt]
           ELSE InferType(r.cg, stmt.expr)
      cg1 == IF Panicked(t.cg) THEN t.cg
             ELSE [t.cg EXCEPT !.var_types = MapInsert(@, stmt.var, t.type)]
      cg2 == IF Panicked(cg1) \/ stmt.var \in DOMAIN cg1.vars THEN cg1
             ELSE [cg1 EXCEPT !.vars = MapInsert(@, stmt.var, cg1.var_offset),
                              !.var_offset = @ + SlotSize]
  IN  IF Panicked(cg2) THEN cg2
      ELSE Emit(cg2, StoreVariable(r.reg, cg2.vars[stmt.var], stmt.var))

\* CodeGen::gen_stmt, the Assign arm
GenAssign(cg, stmt) ==
  CHOOSE v \in {
    IF Panicked(r.cg) THEN r.cg
    ELSE CHOOSE v1 \in {
           IF Panicked(t.cg) THEN t.cg
           ELSE CHOOSE v2 \in {
                  FreeReg(Emit(cg2, StoreVariable(r.reg, cg2.vars[stmt.var], stmt.var)),
                          r.reg)
                  : cg2 \in {LET cg1 == [t.cg EXCEPT
                                           !.var_types = MapInsert(@, stmt.var, t.type)]
                             IN  IF stmt.var \in DOMAIN cg1.vars THEN cg1
                                 ELSE [cg1 EXCEPT
                                         !.vars = MapInsert(@, stmt.var, cg1.var_offset),
                                         !.var_offset = @ + SlotSize]}} : TRUE
           : t \in {InferType(r.cg, stmt.expr)}} : TRUE
    : r \in {GenExpr(cg, stmt.expr)}} : TRUE

\* CodeGen::gen_stmt, the Exit arm
GenExit(cg, stmt) ==
  LET cg1 == IF stmt.expr # NoExpr
             THEN CHOOSE v \in {
                    FreeReg(EmitAll(r.cg, <<Ins("mv", "a1", r.reg, "", 0, NoLabel),
                                            Ins("li", "a0", "", "", 17, NoLabel)>>), r.reg)
                    : r \in {GenExpr(cg, stmt.expr)}} : TRUE
             ELSE Emit(cg, Ins("li", "a0", "", "", 10, NoLabel))
  IN  Emit(cg1, Directive("ecall"))

\* the While arm without its self.while_counter += 1
GenWhileSameCounter(cg, stmt) ==
  LET while_count == cg.while_counter
      while_start == Label("W_start", while_count)
      while_end == Label("W_end", while_count)
      cg2 == Emit(cg, LabelDef(while_start))
      r == GenExpr(cg2, stmt.condition)
  IN  IF Panicked(r.cg) THEN r.cg
      ELSE LET cg3 == FreeReg(Emit(r.cg, Ins("beq", "", r.reg, "x0", 0, while_end)), r.reg)
               cg4 == GenStmts(cg3, stmt.body)
           IN  IF Panicked(cg4) THEN cg4
               ELSE EmitAll(cg4, <<Ins("j", "", "", "", 0, while_start), LabelDef(while_end)>>)

\* CodeGen::gen_stmt, the While arm
GenWhile(cg, stmt) ==
  LET while_count == cg.while_counter
      while_start == Label("W_start", while_count)
      while_end == Label("W_end", while_count)
      cg1 == IF Panicked(cg) THEN cg ELSE [cg EXCEPT !.while_counter = @ + 1]
  IN  CHOOSE v \in {
        CHOOSE v1 \in {
          IF Panicked(r.cg) THEN r.cg
          ELSE CHOOSE v2 \in {
                 CHOOSE v3 \in {
                   IF Panicked(cg4) THEN cg4
                   ELSE EmitAll(cg4, <<Ins("j", "", "", "", 0, while_start),
                                       LabelDef(while_end)>>)
                   : cg4 \in {GenStmts(cg3, stmt.body)}} : TRUE
                 : cg3 \in {FreeReg(Emit(r.cg, Ins("beq", "", r.reg, "x0", 0, while_end)),
                                    r.reg)}} : TRUE
          : r \in {GenExpr(cg2, stmt.condition)}} : TRUE
        : cg2 \in {Emit(cg1, LabelDef(while_start))}} : TRUE

\* CodeGen::gen_stmt, the If arm
GenIf(cg, stmt) ==
  LET if_count == cg.if_counter
      else_label == Label("IF_else", if_count)
      end_label == Label("IF_end", if_count)
      cg1 == IF Panicked(cg) THEN cg ELSE [cg EXCEPT !.if_counter = @ + 1]
  IN  CHOOSE v \in {
        IF Panicked(r.cg) THEN r.cg
        ELSE CHOOSE v1 \in {
               CHOOSE v2 \in {
                 IF Panicked(cg4) THEN cg4
                 ELSE IF ~stmt.has_else THEN Emit(cg4, LabelDef(end_label))
                 ELSE CHOOSE v3 \in {
                        CHOOSE v4 \in {
                          IF Panicked(cg6) THEN cg6 ELSE Emit(cg6, LabelDef(end_label))
                          : cg6 \in {GenStmts(cg5, stmt.else_body)}} : TRUE
                        : cg5 \in {EmitAll(cg4, <<Ins("j", "", "", "", 0, end_label),
                                                  LabelDef(else_label)>>)}} : TRUE
                 : cg4 \in {GenStmts(cg3, stmt.then_body)}} : TRUE
               : cg3 \in {FreeReg(Emit(r.cg, Ins("beq", "", r.reg, "x0", 0,
                                                 IF stmt.has_else THEN else_label
                                                 ELSE end_label)),
                                  r.reg)}} : TRUE
        : r \in {GenExpr(cg1, stmt.condition)}} : TRUE

\* CodeGen::gen_stmt
GenStmt(cg, stmt) ==
  CASE stmt.tag = "Assign" -> GenAssign(cg, stmt)
    [] stmt.tag = "Exit" -> GenExit(cg, stmt)
    [] stmt.tag = "Print" -> GenPrint(cg, stmt.expr, FALSE)
    [] stmt.tag = "PrintLn" ->
         IF stmt.expr # NoExpr THEN GenPrint(cg, stmt.expr, TRUE)
         ELSE EmitAll(cg, NewlineLines)
    [] stmt.tag = "While" -> GenWhile(cg, stmt)
    [] stmt.tag = "If" -> GenIf(cg, stmt)

\* the lines generate pushes before the first statement
PrologueLines ==
  <<Directive(".text"), Directive(".globl main"), LabelDef(Label("main", 0)),
    Ins("addi", "sp", "sp", "", -FrameSize, NoLabel), Blank>>

\* generate's loop over the statements of a program, from a CodeGen that
\* holds the prologue: the CodeGen after the last statement lowered
RECURSIVE GenerateLoop(_, _)
GenerateLoop(cg, ss) ==
  IF ss = <<>> THEN cg
  ELSE CHOOSE v \in {IF Panicked(cg1) THEN cg1 ELSE GenerateLoop(cg1, Tail(ss))
                     : cg1 \in {Nl(GenStmt(cg, Head(ss)))}} : TRUE

\* the lines generate pushes after the last statement
EpilogueLines ==
  <<Comment(<<"Exit", "with", "code", "0">>),
    Ins("li", "a1", "", "", 0, NoLabel), Ins("li", "a0", "", "", 17, NoLabel), Directive("ecall")>>

\* CodeGen::gen_strings, the map iterated in the order given
GenStrings(cg, order) ==
  [i \in 1..Len(order) |-> Asciiz(cg.strings[order[i]], EscapeAsciz(order[i]))]

\* the orders in which the iterator of a HashMap can yield its keys: std's
\* HashMap is seeded per instance (RandomState), any order can come out
IterationOrders(m) ==
  {order \in [1..Cardinality(DOMAIN m) -> DOMAIN m] :
     \A i, j \in 1..Cardinality(DOMAIN m) : i # j => order[i] # order[j]}

\* the text generate returns: final_out joined
FinalOut(cg, order) == <<Directive(".data")>> \o GenStrings(cg, order) \o <<Blank>> \o cg.output

----------------------------------------------------------------------------
(* Source texts given to the Lexer                                         *)

\* i = 0;
SrcAssignI ==
  <<"i", " ", "=", " ", "0", ";">>

\* while i < 3 { print i; i = i + 1; }
SrcWhile ==
  <<"w", "h", "i", "l", "e", " ", "i", " ", "<", " ", "3", " ", "{", " ",
    "p", "r", "i", "n", "t", " ", "i", ";", " ", "i", " ", "=", " ", "i",
    " ", "+", " ", "1", ";", " ", "}">>

\* a = 1;
SrcAssignA ==
  <<"a", " ", "=", " ", "1", ";">>

\* if a { println "yes"; } else { println "no"; }
SrcIfElse ==
  <<"i", "f", " ", "a", " ", "{", " ", "p", "r", "i", "n", "t", "l", "n",
    " ", "\"", "y", "e", "s", "\"", ";", " ", "}", " ", "e", "l", "s", "e",
    " ", "{", " ", "p", "r", "i", "n", "t", "l", "n", " ", "\"", "n", "o",
    "\"", ";", " ", "}">>

\* print "a\n\"\q";
SrcPrintEscapes ==
  <<"p", "r", "i", "n", "t", " ", "\"", "a", "\\", "n", "\\", "\"", "\\",
    "q", "\"", ";">>

\* x = 12 >= 3 # c
SrcComment ==
  <<"x", " ", "=", " ", "1", "2", " ", ">", "=", " ", "3", " ", "#", " ", "c">>

\* exit (1 + 2) * 3 / 4 - 5 <= !6 > 7;
SrcOperators ==
  <<"e", "x", "i", "t", " ", "(", "1", " ", "+", " ", "2", ")", " ", "*",
    " ", "3", " ", "/", " ", "4", " ", "-", " ", "5", " ", "<", "=", " ",
    "!", "6", " ", ">", " ", "7", ";">>

\* y = 2147483648;
SrcOverflow ==
  <<"y", " ", "=", " ", "2", "1", "4", "7", "4", "8", "3", "6", "4", "8", ";">>

\* y = 2147483647;\tprintln
SrcMaxInt ==
  <<"y", " ", "=", " ", "2", "1", "4", "7", "4", "8", "3", "6", "4", "7",
    ";", "\t", "p", "r", "i", "n", "t", "l", "n">>

\* println "abc
SrcUnterminated ==
  <<"p", "r", "i", "n", "t", "l", "n", " ", "\"", "a", "b", "c">>

\* print "a\
SrcUnterminatedEscape ==
  <<"p", "r", "i", "n", "t", " ", "\"", "a", "\\">>

\* x_1 = _
SrcUnderscore ==
  <<"x", "_", "1", " ", "=", " ", "_">>

Fragments ==
  {SrcAssignI, SrcWhile, SrcAssignA, SrcIfElse, SrcPrintEscapes, SrcComment,
   SrcOperators, SrcOverflow, SrcMaxInt, SrcUnterminated, SrcUnterminatedEscape,
   SrcUnderscore}

MaxFragments == 2

\* Source texts of up to n fragments, each on a line of its own.
RECURSIVE SourcesOf(_)
SourcesOf(n) ==
  IF n = 0 THEN {<<>>}
  ELSE LET shorter == SourcesOf(n - 1)
       IN  shorter \cup {f \o <<"\n">> \o s : f \in Fragments, s \in shorter}

\* texts of up to MaxFragments lines: each line ends with a newline, or the
\* last one ends the input
Sources ==
  SourcesOf(MaxFragments) \cup
  {s \o f : s \in SourcesOf(MaxFragments - 1), f \in Fragments}

\* i = 0; while i < 3 { print i; i = i + 1; }
WhileScenario == SrcAssignI \o <<"\n">> \o SrcWhile \o <<"\n">>

\* a = 1; if a { println "yes"; } else { println "no"; }
IfScenario == SrcAssignA \o <<"\n">> \o SrcIfElse \o <<"\n">>

ControlFlowSources == {WhileScenario, IfScenario}

----------------------------------------------------------------------------
(* Lexer::tokenize as a state machine: one action per turn of its loop     *)

LexIdle ==
  /\ lexer = NewLexer(<<>>)
  /\ tokens = <<>>
  /\ lexResult = "idle"
  /\ lexError = NoError

ParseIdle ==
  /\ parser = NewParser(<<>>)
  /\ stmts = <<>>
  /\ parseResult = "idle"
  /\ parseError = NoError

GenIdle ==
  /\ program = <<>>
  /\ codegen = NewCodeGen
  /\ next_stmt = 1
  /\ phase = "idle"
  /\ asm = <<>>
  /\ run = 1
  /\ prev_asm = <<>>

ExecIdle ==
  /\ operator = ""
  /\ operand_a = 0
  /\ operand_b = 0
  /\ code = <<>>
  /\ out_reg = ""
  /\ pc = 1
  /\ regs = <<>>

InitLex ==
  /\ lexer \in {NewLexer(src) : src \in Sources}
  /\ tokens = <<>>
  /\ lexResult = "running"
  /\ lexError = NoError
  /\ ParseIdle
  /\ GenIdle
  /\ ExecIdle

\* next_token returned a token other than Eof: push it and loop
TokenizePush ==
  /\ lexResult = "running"
  /\ LET r == NextToken(lexer)
     IN  /\ r.ok
         /\ r.token.kind # "Eof"
         /\ lexer' = r.lx
         /\ tokens' = Append(tokens, r.token)
         /\ UNCHANGED <<lexResult, lexError, notLex>>

\* next_token returned Eof: push it and return Ok(tokens)
TokenizeEof ==
  /\ lexResult = "running"
  /\ LET r == NextToken(lexer)
     IN  /\ r.ok
         /\ r.token.kind = "Eof"
         /\ lexer' = r.lx
         /\ tokens' = Append(tokens, r.token)
         /\ lexResult' = "ok"
         /\ UNCHANGED <<lexError, notLex>>

\* next_token returned Err: the ? operator returns it, no token list is returned
TokenizeError ==
  /\ lexResult = "running"
  /\ LET r == NextToken(lexer)
     IN  /\ ~r.ok
         /\ lexer' = r.lx
         /\ lexResult' = "error"
         /\ lexError' = r.err
         /\ UNCHANGED <<tokens, notLex>>

NextLex == TokenizePush \/ TokenizeEof \/ TokenizeError

SpecLex == InitLex /\ [][NextLex]_vars

----------------------------------------------------------------------------
(* Token streams given to the Parser: what tokenize returns for programs   *)
(* of one or two statements, ending in the Eof token                       *)

MaxOperators == 2

NameX == <<"x">>

StrA == <<"a">>

TK(kind) == Token(kind, 0, <<>>, NoSpan)

TInt(n) == Token("Int", n, <<>>, NoSpan)

TIdent(name) == Token("Ident", 0, name, NoSpan)

TString(s) == Token("String", 0, s, NoSpan)

\* the i-th operand of an expression: i, x, "a" or -i
Operands(i) ==
  {<<TInt(i)>>, <<TIdent(NameX)>>, <<TString(StrA)>>, <<TK("Minus"), TInt(i)>>}

OperatorTokens == {TK("Plus"), TK("Minus"), TK("Star"), TK("LT")}

\* operand (operator operand)^n
RECURSIVE ExprTokens(_)
ExprTokens(n) ==
  IF n = 0 THEN Operands(1)
  ELSE {e \o <<o>> \o a : e \in ExprTokens(n - 1), o \in OperatorTokens, a \in Operands(n + 1)}

AllExprTokens == UNION {ExprTokens(n) : n \in 0..MaxOperators}

\* x = <expr>, print <expr>, exit <expr>
StmtHeads == {<<TIdent(NameX), TK("Assign")>>, <<TK("Print")>>, <<TK("Exit")>>}

\* nothing, x = 1; or x = "a";
Preludes ==
  {<<>>,
   <<TIdent(NameX), TK("Assign"), TInt(1), TK("Semicolon")>>,
   <<TIdent(NameX), TK("Assign"), TString(StrA), TK("Semicolon")>>}

GeneratedPrograms ==
  {p \o h \o e \o <<TK("Semicolon")>> : p \in Preludes, h \in StmtHeads, e \in AllExprTokens}

\* programs for the arms the generated ones do not take
ExtraPrograms ==
  {<<TK("PrintLn"), TK("Semicolon"), TK("PrintLn")>>,
   <<TK("Exit"), TK("Semicolon"), TK("Exit")>>,
   <<TK("PrintLn"), TString(StrA), TK("Exit"), TInt(1)>>,
   <<TIdent(NameX), TK("Assign"), TK("LParen"), TInt(1), TK("Plus"), TInt(2), TK("RParen"),
     TK("Star"), TInt(3), TK("Semicolon")>>,
   <<TIdent(NameX), TK("Assign"), TK("LParen"), TInt(1), TK("Semicolon")>>,
   <<TIdent(NameX), TK("Assign"), TK("Bang"), TInt(1), TK("Slash"), TInt(2), TK("GTE"),
     TInt(3)>>,
   <<TIdent(NameX), TK("Assign"), TInt(1), TK("LTE"), TInt(2), TK("GT"), TInt(3)>>,
   <<TIdent(NameX), TInt(1)>>,
   <<TK("Semicolon")>>,
   <<TIdent(NameX), TK("Assign"), TK("RParen")>>}

\* the span of the i-th token: line 1, column i
WithSpans(toks) == [i \in 1..Len(toks) |-> [toks[i] EXCEPT !.span = Span(1, i, 1)]]

MaxAssigns == 3

\* x = 1;  x = "a";  x = x;
Reassignments ==
  {<<TIdent(NameX), TK("Assign"), TInt(1), TK("Semicolon")>>,
   <<TIdent(NameX), TK("Assign"), TString(StrA), TK("Semicolon")>>,
   <<TIdent(NameX), TK("Assign"), TIdent(NameX), TK("Semicolon")>>}

RECURSIVE AssignChains(_)
AssignChains(n) ==
  IF n = 0 THEN {<<>>}
  ELSE LET shorter == AssignChains(n - 1)
       IN  shorter \cup {c \o a : c \in shorter, a \in Reassignments}

\* print x;  println "a";  print 1;
PrintTails ==
  {<<TK("Print"), TIdent(NameX), TK("Semicolon")>>,
   <<TK("PrintLn"), TString(StrA), TK("Semicolon")>>,
   <<TK("Print"), TInt(1), TK("Semicolon")>>}

\* up to MaxAssigns assignments to x, of changing type, then a print
ReassignPrograms == {c \o p : c \in AssignChains(MaxAssigns), p \in PrintTails}

ParserInputs ==
  {WithSpans(p \o <<TK("Eof")>>) : p \in GeneratedPrograms \cup ExtraPrograms \cup ReassignPrograms}

----------------------------------------------------------------------------
(* Parser::parse as a state machine: one action per turn of its loop       *)

InitParse ==
  /\ parser \in {NewParser(toks) : toks \in ParserInputs}
  /\ stmts = <<>>
  /\ parseResult = "running"
  /\ parseError = NoError
  /\ LexIdle
  /\ GenIdle
  /\ ExecIdle

\* parse_statement returned Ok: push the statement
ParseStatementOk ==
  /\ parseResult = "running"
  /\ PeekAt(parser.tokens, parser.pos).kind # "Eof"
  /\ LET r == ParseStatement(parser.tokens, parser.var_types, parser.pos)
     IN  /\ r.ok
         /\ parser' = [parser EXCEPT !.pos = r.pos, !.var_types = r.var_types]
         /\ stmts' = Append(stmts, r.stmt)
         /\ UNCHANGED <<parseResult, parseError, notParse>>

\* parse_statement returned Err: the ? operator returns it, no program is returned
ParseStatementErr ==
  /\ parseResult = "running"
  /\ PeekAt(parser.tokens, parser.pos).kind # "Eof"
  /\ LET r == ParseStatement(parser.tokens, parser.var_types, parser.pos)
     IN  /\ ~r.ok
         /\ parser' = [parser EXCEPT !.pos = r.pos]
         /\ parseResult' = "error"
         /\ parseError' = r.err
         /\ UNCHANGED <<stmts, notParse>>

\* the next token is Eof: return Ok((stmts, var_types))
ParseFinish ==
  /\ parseResult = "running"
  /\ PeekAt(parser.tokens, parser.pos).kind = "Eof"
  /\ parseResult' = "ok"
  /\ UNCHANGED <<parser, stmts, parseError, notParse>>

NextParse == ParseStatementOk \/ ParseStatementErr \/ ParseFinish

SpecParse == InitParse /\ [][NextParse]_vars

----------------------------------------------------------------------------
(* Programs given to CodeGen::generate: statement lists that have passed   *)
(* the parser's checks                                                     *)

MaxStmts == 3

MaxChainLeaves == 7

NameY == <<"y">>

StrB == <<"b">>

StrYes == <<"y", "e", "s">>

StrNo == <<"n", "o">>

VarX == ExprVar(NameX)

\* n + (... + (2 + 1)): n leaves, nested to the right
RECURSIVE RightChain(_)
RightChain(n) == IF n <= 1 THEN ExprInt(1) ELSE ExprBinOp("Add", ExprInt(n), RightChain(n - 1))

\* ((1 + 2) + 3) + 4, nested to the left
LeftChain ==
  ExprBinOp("Add", ExprBinOp("Add", ExprBinOp("Add", ExprInt(1), ExprInt(2)), ExprInt(3)),
            ExprInt(4))

\* i = 0; while i < 3 { print i; i = i + 1; } with x for i
WhileLoop ==
  StmtWhile(ExprBinOp("LT", VarX, ExprInt(3)),
            <<StmtPrint(VarX), StmtAssign(NameX, ExprBinOp("Add", VarX, ExprInt(1)))>>)

\* if x { println "yes"; } else { println "no"; }
IfElse ==
  StmtIf(VarX, <<StmtPrintLn(ExprString(StrYes))>>, TRUE, <<StmtPrintLn(ExprString(StrNo))>>)

\* if x != 1 { while x > 1 { x = x / 2; } y = -x; }
IfNoElse ==
  StmtIf(ExprBinOp("Neq", VarX, ExprInt(1)),
         <<StmtWhile(ExprBinOp("GT", VarX, ExprInt(1)),
                     <<StmtAssign(NameX, ExprBinOp("Div", VarX, ExprInt(2)))>>),
           StmtAssign(NameY, ExprUnaryOp("Neg", VarX))>>,
         FALSE, <<>>)

StmtPool ==
  {StmtAssign(NameX, ExprInt(1)),
   StmtAssign(NameX, ExprString(StrA)),
   StmtAssign(NameY, RightChain(MaxChainLeaves)),
   StmtPrint(RightChain(MaxChainLeaves - 1)),
   StmtAssign(NameY, ExprBinOp("Sub", LeftChain, ExprBinOp("Mul", ExprInt(2), VarX))),
   StmtPrint(VarX),
   StmtPrintLn(ExprString(StrA)),
   StmtPrintLn(ExprString(StrB)),
   StmtPrintLn(NoExpr),
   StmtPrint(ExprUnaryOp("Not", ExprBinOp("AND", ExprBinOp("LTE", VarX, ExprInt(2)),
                                          ExprBinOp("Eq", VarX, ExprInt(2))))),
   StmtPrintLn(ExprBinOp("OR", ExprBinOp("GTE", VarX, ExprInt(2)),
                         ExprUnaryOp("BitNot", ExprBinOp("BitXor", VarX,
                           ExprBinOp("BitAnd", ExprInt(6), ExprBinOp("BitOr", VarX,
                             ExprBinOp("LShift", ExprInt(1), ExprBinOp("RShift", VarX,
                               ExprInt(1))))))))),
   StmtExit(NoExpr),
   StmtExit(ExprBinOp("Add", VarX, ExprInt(1))),
   WhileLoop, IfElse, IfNoElse}

CheckOk(var_types) == [ok |-> TRUE, var_types |-> var_types]

CheckFailed(var_types) == [ok |-> FALSE, var_types |-> var_types]

\* what parse_statement has checked of a statement it returned: the names its
\* expression refers to are in var_types (parse_primary), the expression of an
\* Assign has a type, the expression of an Exit has type Int
CheckSimpleStmt(var_types, s) ==
  IF ~(VarsOf(s.expr) \subseteq DOMAIN var_types) THEN CheckFailed(var_types)
  ELSE CASE s.tag = "Assign" ->
              LET expr_type == GetType(s.expr, var_types)
              IN  IF expr_type.ok THEN CheckOk(MapInsert(var_types, s.var, expr_type.type))
                  ELSE CheckFailed(var_types)
         [] s.tag = "Exit" ->
              IF s.expr = NoExpr THEN CheckOk(var_types)
              ELSE LET expr_type == GetType(s.expr, var_types)
                   IN  IF expr_type.ok /\ expr_type.type = TypeInt THEN CheckOk(var_types)
                       ELSE CheckFailed(var_types)
         [] OTHER -> CheckOk(var_types)

RECURSIVE CheckStmt(_, _)
RECURSIVE CheckStmts(_, _)

CheckStmts(var_types, ss) ==
  IF ss = <<>> THEN CheckOk(var_types)
  ELSE LET first == CheckStmt(var_types, Head(ss))
       IN  IF first.ok THEN CheckStmts(first.var_types, Tail(ss)) ELSE first

\* the same of a While or If: its condition is an integer expression over
\* names assigned before it, its bodies are checked in parsing order
CheckStmt(var_types, s) ==
  IF s.tag \in {"While", "If"}
  THEN LET cond_type == GetType(s.condition, var_types)
       IN  IF ~(cond_type.ok /\ cond_type.type = TypeInt) THEN CheckFailed(var_types)
           ELSE IF s.tag = "While" THEN CheckStmts(var_types, s.body)
           ELSE LET then_checked == CheckStmts(var_types, s.then_body)
                IN  IF then_checked.ok /\ s.has_else
                    THEN CheckStmts(then_checked.var_types, s.else_body)
                    ELSE then_checked
  ELSE CheckSimpleStmt(var_types, s)

RECURSIVE StmtLists(_)
StmtLists(n) ==
  IF n = 0 THEN {<<>>}
  ELSE LET shorter == StmtLists(n - 1)
       IN  shorter \cup {Append(ss, s) : ss \in shorter, s \in StmtPool}

GenPrograms == {ss \in StmtLists(MaxStmts) : CheckStmts(EmptyMap, ss).ok}

----------------------------------------------------------------------------
(* CodeGen::generate as a state machine: its prologue, one action per turn *)
(* of its loop over the statements, its epilogue; main compiles a program  *)
(* with a fresh CodeGen, and Recompile is a second compilation of the same *)
(* program                                                                 *)

InitGen ==
  /\ program \in GenPrograms
  /\ codegen = NewCodeGen
  /\ next_stmt = 1
  /\ phase = "start"
  /\ asm = <<>>
  /\ run = 1
  /\ prev_asm = <<>>
  /\ LexIdle
  /\ ParseIdle
  /\ ExecIdle

\* generate: the lines before the loop
GeneratePrologue ==
  /\ phase = "start"
  /\ codegen' = EmitAll(codegen, PrologueLines)
  /\ phase' = "running"
  /\ UNCHANGED <<program, next_stmt, asm, run, prev_asm, notGen>>

\* generate: one turn of for stmt in stmts { gen_stmt(stmt); nl(); }
GenerateStmt ==
  /\ phase = "running"
  /\ next_stmt <= Len(program)
  /\ codegen' = Nl(GenStmt(codegen, program[next_stmt]))
  /\ next_stmt' = next_stmt + 1
  /\ phase' = IF Panicked(codegen') THEN "panicked" ELSE "running"
  /\ UNCHANGED <<program, asm, run, prev_asm, notGen>>

\* generate: the trailing exit sequence, then the data section (the strings
\* map iterated in whatever order its hasher yields) before the moved output
GenerateFinish ==
  /\ phase = "running"
  /\ next_stmt > Len(program)
  /\ \E order \in IterationOrders(codegen.strings) :
       LET cg1 == EmitAll(codegen, EpilogueLines)
       IN  /\ asm' = FinalOut(cg1, order)
           /\ codegen' = [cg1 EXCEPT !.output = <<>>]
  /\ phase' = "done"
  /\ UNCHANGED <<program, next_stmt, run, prev_asm, notGen>>

\* the same program compiled again with CodeGen::new()
Recompile ==
  /\ phase = "done"
  /\ run = 1
  /\ run' = 2
  /\ prev_asm' = asm
  /\ asm' = <<>>
  /\ codegen' = NewCodeGen
  /\ next_stmt' = 1
  /\ phase' = "start"
  /\ UNCHANGED <<program, notGen>>

NextGen == GeneratePrologue \/ GenerateStmt \/ GenerateFinish \/ Recompile

SpecGen == InitGen /\ [][NextGen]_vars

----------------------------------------------------------------------------
(* generate on programs with many variables: v1 = 1; .. vn = 1; and then a *)
(* print of an expression that takes the spill path                        *)

MaxVars == 33

\* the name v<k>
VarName(k) == <<"v">> \o Decimal(k)

ManyAssigns(n) == [k \in 1..n |-> StmtAssign(VarName(k), ExprInt(1))]

FramePrograms ==
  {ManyAssigns(n) \o <<StmtPrint(RightChain(MaxChainLeaves))>> : n \in 1..MaxVars}

InitFrame ==
  /\ program \in FramePrograms
  /\ codegen = NewCodeGen
  /\ next_stmt = 1
  /\ phase = "start"
  /\ asm = <<>>
  /\ run = 1
  /\ prev_asm = <<>>
  /\ LexIdle
  /\ ParseIdle
  /\ ExecIdle

SpecFrame == InitFrame /\ [][NextGen]_vars

----------------------------------------------------------------------------
(* The code gen_expr emits for one BinOp over two integer operands, run on *)
(* an RV32 register file, one line per step                                *)

MaxVal == 5

\* the operand values: the small ones and the ends of the i32 range
Vals == (-MaxVal..MaxVal) \cup {I32Min, I32Min + 1, I32Max - 1, I32Max}

ComparisonOps == {"LT", "LTE", "GT", "GTE", "Eq", "Neq"}

LogicalOps == {"AND", "OR"}

Half == 65536

\* the upper and the lower 16 bits of a 32-bit value, as unsigned numbers
HiOf(v) == (v \div Half) % Half

LoOf(v) == v % Half

\* the signed 32-bit value of two unsigned halves
I32Of(hi, lo) == (IF hi >= Half \div 2 THEN hi - Half ELSE hi) * Half + lo

\* sub: a - b modulo 2^32
WrappingSub(a, b) ==
  LET lo == LoOf(a) - LoOf(b)
      borrow == IF lo < 0 THEN 1 ELSE 0
      hi == HiOf(a) - HiOf(b) - borrow
  IN  I32Of(hi % Half, lo % Half)

\* sltu's comparison: a < b as unsigned 32-bit numbers
UnsignedLess(a, b) ==
  \/ HiOf(a) < HiOf(b)
  \/ HiOf(a) = HiOf(b) /\ LoOf(a) < LoOf(b)

BitOf(name, x, y) ==
  CASE name = "and" -> IF x = 1 /\ y = 1 THEN 1 ELSE 0
    [] name = "or" -> IF x = 1 \/ y = 1 THEN 1 ELSE 0
    [] name = "xor" -> IF x # y THEN 1 ELSE 0

\* and / or / xor over the low n bits of x and y
RECURSIVE BitwiseBits(_, _, _, _)
BitwiseBits(name, x, y, n) ==
  IF n = 0 THEN 0
  ELSE BitOf(name, x % 2, y % 2) + 2 * BitwiseBits(name, x \div 2, y \div 2, n - 1)

Bitwise(name, a, b) ==
  I32Of(BitwiseBits(name, HiOf(a), HiOf(b), 16), BitwiseBits(name, LoOf(a), LoOf(b), 16))

TempRegs == {RegPoolInit[i] : i \in 1..Len(RegPoolInit)}

\* a register read: x0 is hardwired to zero
ReadReg(rf, r) == IF r = "x0" THEN 0 ELSE rf[r]

WriteReg(rf, r, v) == IF r = "x0" THEN rf ELSE [rf EXCEPT ![r] = v]

\* the effect of one emitted line on the registers
Execute(rf, line) ==
  CASE line.op = "li" -> WriteReg(rf, line.rd, line.imm)
    [] line.op = "slt" ->
         WriteReg(rf, line.rd, IF ReadReg(rf, line.rs1) < ReadReg(rf, line.rs2) THEN 1 ELSE 0)
    [] line.op = "sltu" ->
         WriteReg(rf, line.rd,
                  IF UnsignedLess(ReadReg(rf, line.rs1), ReadReg(rf, line.rs2)) THEN 1 ELSE 0)
    [] line.op = "xori" -> WriteReg(rf, line.rd, Bitwise("xor", ReadReg(rf, line.rs1), line.imm))
    [] line.op = "sub" ->
         WriteReg(rf, line.rd, WrappingSub(ReadReg(rf, line.rs1), ReadReg(rf, line.rs2)))
    [] line.op \in {"and", "or"} ->
         WriteReg(rf, line.rd, Bitwise(line.op, ReadReg(rf, line.rs1), ReadReg(rf, line.rs2)))

\* gen_expr on a BinOp of two integers, with a fresh CodeGen
Lowered(op, a, b) == GenExpr(NewCodeGen, ExprBinOp(op, ExprInt(a), ExprInt(b)))

InitExec ==
  /\ operator \in ComparisonOps \cup LogicalOps
  /\ operand_a \in Vals
  /\ operand_b \in Vals
  /\ code = Lowered(operator, operand_a, operand_b).cg.output
  /\ out_reg = Lowered(operator, operand_a, operand_b).reg
  /\ pc = 1
  /\ regs = [r \in TempRegs |-> 0]
  /\ LexIdle
  /\ ParseIdle
  /\ GenIdle

\* the machine executes the next line
ExecStep ==
  /\ pc <= Len(code)
  /\ regs' = Execute(regs, code[pc])
  /\ pc' = pc + 1
  /\ UNCHANGED <<operator, operand_a, operand_b, code, out_reg, notExec>>

NextExec == ExecStep

SpecExec == InitExec /\ [][NextExec]_vars

----------------------------------------------------------------------------
(* Properties of the Parser (checked under SpecParse)                      *)

BinaryOperatorTokens == {"Plus", "Minus", "Star", "Slash", "LT", "LTE", "GT", "GTE"}

\* integer literals joined by binary operators: Int (op Int)*
IsIntOperatorChain(toks) ==
  /\ Len(toks) % 2 = 1
  /\ \A i \in 1..Len(toks) :
       IF i % 2 = 1 THEN toks[i].kind = "Int" ELSE toks[i].kind \in BinaryOperatorTokens

ComparisonCount(toks) == Cardinality({i \in 1..Len(toks) : toks[i].kind \in CompTokens})

\* the program is the one statement  x = <expression> ;
IsSingleAssign(toks) ==
  /\ Len(toks) >= 5
  /\ toks[1].kind = "Ident"
  /\ toks[2].kind = "Assign"
  /\ toks[Len(toks) - 1].kind = "Semicolon"
  /\ toks[Len(toks)].kind = "Eof"

AssignedExprTokens(toks) == SubSeq(toks, 3, Len(toks) - 2)

\* The tree the precedence classes dictate for Int (op Int)*: the root is the
\* rightmost operator of the lowest precedence class (lower binds looser, equal
\* precedence associates to the left).
RECURSIVE PrecedenceTree(_)
PrecedenceTree(toks) ==
  IF Len(toks) = 1 THEN ExprInt(toks[1].ival)
  ELSE LET ops == {i \in 1..Len(toks) : i % 2 = 0}
           lowest == CHOOSE q \in {Precedence(toks[i]) : i \in ops} :
                       \A i \in ops : q <= Precedence(toks[i])
           root == CHOOSE i \in ops :
                     /\ Precedence(toks[i]) = lowest
                     /\ \A j \in ops : Precedence(toks[j]) = lowest => j <= i
       IN  ExprBinOp(BinOpOfToken(toks[root].kind),
                     PrecedenceTree(SubSeq(toks, 1, root - 1)),
                     PrecedenceTree(SubSeq(toks, root + 1, Len(toks))))

\* C1: for x = <integer literals joined by binary operators>, with at most one
\* comparison among them, parse returns the tree the precedence classes
\* comparison < additive < multiplicative dictate, equal precedence associating
\* to the left: 1 * 2 + 3 is (1 * 2) + 3 and 1 - 2 - 3 is (1 - 2) - 3.
C1_PrecedenceTreeBuilt ==
  ( /\ parseResult \in {"ok", "error"}
    /\ IsSingleAssign(parser.tokens)
    /\ IsIntOperatorChain(AssignedExprTokens(parser.tokens))
    /\ ComparisonCount(AssignedExprTokens(parser.tokens)) <= 1 )
  => /\ parseResult = "ok"
     /\ Len(stmts) = 1
     /\ stmts[1].expr = PrecedenceTree(AssignedExprTokens(parser.tokens))

\* C2: an expression of integer literals chaining two comparison operators,
\* such as x = 1 < 2 < 3, is rejected by parse with the ParseError "Chained
\* comparisons are not allowed" and no statement list is returned.
C2_ChainedComparisonRejected ==
  ( /\ parseResult \in {"ok", "error"}
    /\ IsSingleAssign(parser.tokens)
    /\ IsIntOperatorChain(AssignedExprTokens(parser.tokens))
    /\ ComparisonCount(AssignedExprTokens(parser.tokens)) >= 2 )
  => /\ parseResult = "error"
     /\ parseError.kind = "ParseError"
     /\ parseError.msg = "Chained comparisons are not allowed"

\* the static type of an operand under the variable types in force
OperandType(e, var_types) ==
  CASE e.tag = "String" -> TypeString
    [] e.tag = "Var" -> IF e.name \in DOMAIN var_types THEN var_types[e.name] ELSE "Unknown"
    [] OTHER -> TypeInt

\* every BinOp and UnaryOp node of e has only Int-typed operands
RECURSIVE OperandsAreInt(_, _)
OperandsAreInt(e, var_types) ==
  CASE e.tag = "BinOp" ->
         /\ OperandType(e.left, var_types) = TypeInt
         /\ OperandType(e.right, var_types) = TypeInt
         /\ OperandsAreInt(e.left, var_types)
         /\ OperandsAreInt(e.right, var_types)
    [] e.tag = "UnaryOp" ->
         /\ OperandType(e.expr, var_types) = TypeInt
         /\ OperandsAreInt(e.expr, var_types)
    [] OTHER -> TRUE

\* the same of every statement of a list, each under the types the
\* assignments before it leave
RECURSIVE StmtsOperandsAreInt(_, _)
StmtsOperandsAreInt(ss, var_types) ==
  IF ss = <<>> THEN TRUE
  ELSE LET s == Head(ss)
       IN  /\ OperandsAreInt(s.expr, var_types)
           /\ StmtsOperandsAreInt(Tail(ss),
                IF s.tag = "Assign"
                THEN MapInsert(var_types, s.var, OperandType(s.expr, var_types))
                ELSE var_types)

\* C3: in every program parse accepts, every BinOp and UnaryOp node has only
\* Int-typed operands, whichever statement (Assign, Exit, Print, PrintLn)
\* holds it.
C3_OperatorsHaveIntOperands ==
  parseResult = "ok" => StmtsOperandsAreInt(stmts, EmptyMap)

\* the names assigned by the statements before the i-th
AssignedBefore(ss, i) == {ss[j].var : j \in {k \in 1..(i - 1) : ss[k].tag = "Assign"}}

OperandPositionTokens ==
  BinaryOperatorTokens \cup {"Assign", "Bang", "LParen", "Print", "PrintLn", "Exit"}

\* the first statement of the program refers to a name: an identifier in
\* operand position with no statement completed before it
FirstStmtRefersToName(toks) ==
  \E i \in 2..Len(toks) :
    /\ toks[i].kind = "Ident"
    /\ toks[i - 1].kind \in OperandPositionTokens
    /\ \A j \in 1..(i - 1) :
         /\ toks[j].kind # "Semicolon"
         /\ toks[j].kind \in {"Print", "PrintLn", "Exit"} => j = 1
         /\ toks[j].kind = "Assign" => j = 2

\* C6: every Var reference of a statement parse has accepted is preceded by an
\* Assign to the same name, and a program whose first statement refers to a
\* name (z = w, x = x + 1) is never accepted: it ends in a ParseError.
C6_VarsAssignedBeforeUse ==
  /\ \A i \in 1..Len(stmts) : VarsOf(stmts[i].expr) \subseteq AssignedBefore(stmts, i)
  /\ FirstStmtRefersToName(parser.tokens) =>
       /\ parseResult # "ok"
       /\ stmts = <<>>
       /\ parseResult = "error" => parseError.kind = "ParseError"

\* an accepted program whose second statement reads the variable the first assigned
C6_Witness ==
  /\ parseResult = "ok"
  /\ Len(stmts) = 2
  /\ stmts[1].tag = "Assign"
  /\ stmts[2].tag = "Assign"
  /\ stmts[2].expr.tag = "BinOp"
  /\ VarsOf(stmts[2].expr) = {stmts[1].var}

----------------------------------------------------------------------------
(* Properties of the Lexer (checked under SpecLex)                         *)

\* C7: a source program using control flow (while Expr { Stmt* }, if Expr
\* { Stmt* } else { Stmt* }) is accepted by tokenize: it does not end in a
\* LexError.
C7_ControlFlowAccepted ==
  lexer.input \in ControlFlowSources => lexResult # "error"

----------------------------------------------------------------------------
(* Properties of the CodeGen                                               *)

\* the statement generate's loop has just lowered
LoweredStmt == program[next_stmt - 1]

\* C4: the allocator never hands out a register that is still live: no
\* alloc_reg call of the lowering so far has returned a register that was
\* allocated and not yet freed, and once a statement is lowered no allocated
\* register is left unfreed, whatever the nesting depth of its expressions
C4_NoLiveRegisterHandedOut ==
  phase \in {"running", "done"} =>
    /\ ~codegen.live_alloc
    /\ codegen.held = <<>>

\* C5: once the lowering of a statement completes, whichever arm of gen_stmt
\* and path of gen_print it took, alloc_reg has been called as many times as
\* free_reg
C5_AllocsEqualFrees ==
  phase \in {"running", "done"} => codegen.allocs = codegen.frees

\* a While statement (a condition, a Print and an Assign in its body) has
\* been lowered, with alloc_reg called for it
C5_Witness ==
  /\ phase = "running"
  /\ next_stmt > 1
  /\ LoweredStmt = WhileLoop
  /\ codegen.allocs >= 5
  /\ codegen.frees >= 5

\* C10: the second compilation of a program returns the text the first one
\* returned, whatever the number of distinct string literals in it
C10_SameTextTwice ==
  (run = 2 /\ phase = "done") => asm = prev_asm

----------------------------------------------------------------------------
(* Properties of the emitted code when executed                            *)

Executed == pc > Len(code)

\* the relation a comparison operator stands for
Holds(op, a, b) ==
  CASE op = "LT" -> a < b
    [] op = "LTE" -> a <= b
    [] op = "GT" -> a > b
    [] op = "GTE" -> a >= b
    [] op = "Eq" -> a = b
    [] op = "Neq" -> a # b

\* C8: for every comparison operator and every pair of operand values, the
\* emitted sequence leaves exactly 1 in the result register when the relation
\* holds and exactly 0 when it does not
C8_ComparisonYieldsZeroOrOne ==
  (Executed /\ operator \in ComparisonOps) =>
    regs[out_reg] = IF Holds(operator, operand_a, operand_b) THEN 1 ELSE 0

\* 5 < 3 has been executed and gave 0
C8_Witness ==
  /\ Executed
  /\ operator = "LT"
  /\ operand_a = 5
  /\ operand_b = 3
  /\ regs[out_reg] = 0

\* C9: And yields 1 exactly when both operands are nonzero, Or yields 1
\* exactly when one of them is, and both yield 0 otherwise
C9_LogicalOpsTreatNonzeroAsTrue ==
  (Executed /\ operator \in LogicalOps) =>
    regs[out_reg] =
      IF operator = "AND"
      THEN (IF operand_a # 0 /\ operand_b # 0 THEN 1 ELSE 0)
      ELSE (IF operand_a # 0 \/ operand_b # 0 THEN 1 ELSE 0)

----------------------------------------------------------------------------
(* Properties of the text generate returns                                 *)

\* the statements of a list with the statements nested in their bodies
RECURSIVE AllStmts(_)
AllStmts(ss) ==
  IF ss = <<>> THEN <<>>
  ELSE LET s == Head(ss)
           nested == CASE s.tag = "While" -> AllStmts(s.body)
                       [] s.tag = "If" -> AllStmts(s.then_body) \o AllStmts(s.else_body)
                       [] OTHER -> <<>>
       IN  <<s>> \o nested \o AllStmts(Tail(ss))

CountWhere(s, Test(_)) == Cardinality({i \in 1..Len(s) : Test(s[i])})

IsWhile(s) == s.tag = "While"

IsIf(s) == s.tag = "If"

IsIfWithElse(s) == s.tag = "If" /\ s.has_else

\* the lines of a text that define a label, and those that branch or jump
DefinesLabel(line) == line.op \in {"label:", ".asciiz"}

IsBranchOrJump(line) == line.op \in {"beq", "j"}

\* how many lines of a text define the name of label
TimesDefined(text, label) ==
  Cardinality({i \in 1..Len(text) :
                 DefinesLabel(text[i]) /\ LabelText(text[i].label) = LabelText(label)})

\* how many lines of a text define a label of a kind
DefinedOfKind(text, kind) ==
  Cardinality({i \in 1..Len(text) : DefinesLabel(text[i]) /\ text[i].label.kind = kind})

\* no name defined twice, every branch or jump target defined once
LabelsWellFormed(text) ==
  /\ \A i \in 1..Len(text) : DefinesLabel(text[i]) => TimesDefined(text, text[i].label) = 1
  /\ \A i \in 1..Len(text) : IsBranchOrJump(text[i]) => TimesDefined(text, text[i].label) = 1

\* C11 as stated: N start/end pairs and M else/end pairs, an else label for
\* every If
C11_LabelPairsPerStatement ==
  phase = "done" =>
    /\ LabelsWellFormed(asm)
    /\ DefinedOfKind(asm, "W_start") = CountWhere(AllStmts(program), IsWhile)
    /\ DefinedOfKind(asm, "W_end") = CountWhere(AllStmts(program), IsWhile)
    /\ DefinedOfKind(asm, "IF_end") = CountWhere(AllStmts(program), IsIf)
    /\ DefinedOfKind(asm, "IF_else") = CountWhere(AllStmts(program), IsIf)

\* C11: in the text of one generate call no label name is defined twice and
\* every branch or jump target is defined exactly once; the N While statements
\* give N W<n>_start and N W<n>_end labels, the M If statements give M
\* IF<n>_end labels, and an IF<n>_else label for each If that has an else
C11_LabelsUnique ==
  phase = "done" =>
    /\ LabelsWellFormed(asm)
    /\ DefinedOfKind(asm, "W_start") = CountWhere(AllStmts(program), IsWhile)
    /\ DefinedOfKind(asm, "W_end") = CountWhere(AllStmts(program), IsWhile)
    /\ DefinedOfKind(asm, "IF_end") = CountWhere(AllStmts(program), IsIf)
    /\ DefinedOfKind(asm, "IF_else") = CountWhere(AllStmts(program), IsIfWithElse)

\* a program with two While statements, one of them nested in an If, has
\* been compiled
C11_Witness ==
  /\ phase = "done"
  /\ CountWhere(AllStmts(program), IsWhile) = 2
  /\ CountWhere(AllStmts(program), IsIf) = 1
  /\ DefinedOfKind(asm, "W_start") = 2
  /\ DefinedOfKind(asm, "IF_end") = 1

\* the string literal values of an expression, one per occurrence
RECURSIVE LiteralsOf(_)
LiteralsOf(e) ==
  CASE e.tag = "String" -> <<e.value>>
    [] e.tag = "BinOp" -> LiteralsOf(e.left) \o LiteralsOf(e.right)
    [] e.tag = "UnaryOp" -> LiteralsOf(e.expr)
    [] OTHER -> <<>>

\* the same of a list of statements, nested bodies included
RECURSIVE StmtsLiterals(_)
StmtsLiterals(ss) ==
  IF ss = <<>> THEN <<>>
  ELSE LET s == Head(ss)
           own == CASE s.tag \in {"While", "If"} -> LiteralsOf(s.condition)
                    [] OTHER -> LiteralsOf(s.expr)
           nested == CASE s.tag = "While" -> StmtsLiterals(s.body)
                       [] s.tag = "If" -> StmtsLiterals(s.then_body) \o StmtsLiterals(s.else_body)
                       [] OTHER -> <<>>
       IN  own \o nested \o StmtsLiterals(Tail(ss))

\* how many times a value is used as a literal in the program
TimesUsed(value) ==
  Cardinality({i \in 1..Len(StmtsLiterals(program)) : StmtsLiterals(program)[i] = value})

UsedValues == {StmtsLiterals(program)[i] : i \in 1..Len(StmtsLiterals(program))}

\* the indexes of the .asciiz lines of a text that hold a value
EntriesOf(text, value) ==
  {i \in 1..Len(text) : text[i].op = ".asciiz" /\ text[i].text = EscapeAsciz(value)}

\* how many lines of a text load the address of the label named as label is
TimesLoaded(text, label) ==
  Cardinality({i \in 1..Len(text) :
                 text[i].op = "la" /\ LabelText(text[i].label) = LabelText(label)})

\* C12: in the text of one generate call every distinct string literal value
\* has exactly one .asciiz entry, the data section holds no other entry, no
\* two values have entries with the same label name, and a value used K
\* times is referenced K times through the label of its entry
C12_OneEntryPerStringValue ==
  phase = "done" =>
    /\ \A v \in UsedValues : Cardinality(EntriesOf(asm, v)) = 1
    /\ Cardinality({i \in 1..Len(asm) : asm[i].op = ".asciiz"}) = Cardinality(UsedValues)
    /\ \A v, w \in UsedValues : \A i \in EntriesOf(asm, v) : \A j \in EntriesOf(asm, w) :
         v # w => LabelText(asm[i].label) # LabelText(asm[j].label)
    /\ \A v \in UsedValues : \A i \in EntriesOf(asm, v) :
         TimesLoaded(asm, asm[i].label) = TimesUsed(v)

\* a program using one literal twice and another one once has been compiled
C12_Witness ==
  /\ phase = "done"
  /\ \E v, w \in UsedValues : v # w /\ TimesUsed(v) = 2 /\ TimesUsed(w) = 1
  /\ Cardinality({i \in 1..Len(asm) : asm[i].op = ".asciiz"}) = 2

----------------------------------------------------------------------------
(* Properties of generate on what parse returns                            *)

\* the CodeGen after generate's loop over the statements parse has returned
LoweredProgram == GenerateLoop(EmitAll(NewCodeGen, PrologueLines), stmts)

\* every Print / PrintLn of ss whose expression infer_type gives String for
\* is a literal or a variable, cg being the CodeGen the first of ss meets
RECURSIVE StringPrintsHandled(_, _)
StringPrintsHandled(cg, ss) ==
  IF ss = <<>> \/ Panicked(cg) THEN TRUE
  ELSE LET s == Head(ss)
           handled == (s.tag \in {"Print", "PrintLn"} /\ s.expr # NoExpr
                       /\ InferType(cg, s.expr).type = TypeString)
                      => s.expr.tag \in {"String", "Var"}
       IN  handled /\ StringPrintsHandled(GenStmt(cg, s), Tail(ss))

\* C13: generate does not fault on a statement list parse returned Ok:
\* neither panic is reached, and every Print / PrintLn of a String-typed
\* expression is a literal or a variable
C13_GenerateNeverFaults ==
  parseResult = "ok" =>
    /\ ~Panicked(LoweredProgram)
    /\ StringPrintsHandled(NewCodeGen, stmts)

\* parse has returned a program that assigns a string to x and prints x,
\* and generate has lowered it
C13_Witness ==
  /\ parseResult = "ok"
  /\ Len(stmts) = 2
  /\ stmts[1] = StmtAssign(NameX, ExprString(StrA))
  /\ stmts[2] = StmtPrint(ExprVar(NameX))
  /\ LoweredProgram.panic = ""
  /\ LoweredProgram.var_types[NameX] = TypeString

----------------------------------------------------------------------------
(* Properties of the Lexer on string literals                              *)

\* the first index from i on where input holds one of chars, 0 when none
NextOf(input, i, chars) ==
  LET hits == {j \in i..Len(input) : input[j] \in chars}
  IN  IF hits = {} THEN 0 ELSE CHOOSE j \in hits : \A k \in hits : j <= k

\* the index in input of the opening quote of the string literal that the end
\* of input leaves open, 0 when there is none; i is the index looked at, mode
\* says whether i is in code, in a comment or in a string opened at open
RECURSIVE OpenQuoteFrom(_, _, _, _)
OpenQuoteFrom(input, i, mode, open) ==
  CASE mode = "code" ->
         LET j == NextOf(input, i, {"\"", "#"})
         IN  IF j = 0 THEN 0
             ELSE IF input[j] = "#" THEN OpenQuoteFrom(input, j + 1, "comment", 0)
             ELSE OpenQuoteFrom(input, j + 1, "string", j)
    [] mode = "comment" ->
         LET j == NextOf(input, i, {"\n"})
         IN  IF j = 0 THEN 0 ELSE OpenQuoteFrom(input, j + 1, "code", 0)
    [] mode = "string" ->
         LET j == NextOf(input, i, {"\"", "\\"})
         IN  IF j = 0 THEN open
             ELSE IF input[j] = "\"" THEN OpenQuoteFrom(input, j + 1, "code", 0)
             ELSE OpenQuoteFrom(input, j + 2, "string", open)

OpenQuote(input) == OpenQuoteFrom(input, 1, "code", 0)

\* the line and the column of the character at index q of input
LineOf(input, q) == 1 + Cardinality({i \in 1..(q - 1) : input[i] = "\n"})

ColOf(input, q) ==
  LET breaks == {i \in 1..(q - 1) : input[i] = "\n"}
      last == IF breaks = {} THEN 0 ELSE CHOOSE i \in breaks : \A j \in breaks : j <= i
  IN  q - last

UnterminatedMessages == {"Unterminated string literal", "Unterminated escape in string"}

----------------------------------------------------------------------------
(* Properties of variable typing across parse and generate                 *)

\* the type of the most recent assignment to name among the first n
\* statements of ss ("None" when there is none); an assignment of a variable
\* has the type that variable had before it
RECURSIVE LastAssignedType(_, _, _)
LastAssignedType(ss, n, name) ==
  IF n = 0 THEN "None"
  ELSE IF ss[n].tag = "Assign" /\ ss[n].var = name
  THEN CASE ss[n].expr.tag = "String" -> TypeString
         [] ss[n].expr.tag = "Var" -> LastAssignedType(ss, n - 1, ss[n].expr.name)
         [] OTHER -> TypeInt
  ELSE LastAssignedType(ss, n - 1, name)

AssignedNames(ss) == {ss[i].var : i \in {j \in 1..Len(ss) : ss[j].tag = "Assign"}}

\* the CodeGen after generate's loop over the first n statements parse returned
LoweredUpTo(n) == GenerateLoop(EmitAll(NewCodeGen, PrologueLines), SubSeq(stmts, 1, n))

\* the lines generate pushes for statement n
LinesOfStmt(n) ==
  SubSeq(LoweredUpTo(n).output, Len(LoweredUpTo(n - 1).output) + 1, Len(LoweredUpTo(n).output))

\* the lines hold li a0, <number>: the syscall is selected
SelectsSyscall(lines, number) ==
  \E i \in 1..Len(lines) : lines[i].op = "li" /\ lines[i].rd = "a0" /\ lines[i].imm = number

\* the type of the variable or literal that statement n prints
PrintedType(n) ==
  CASE stmts[n].expr.tag = "String" -> TypeString
    [] stmts[n].expr.tag = "Int" -> TypeInt
    [] stmts[n].expr.tag = "Var" -> LastAssignedType(stmts, n - 1, stmts[n].expr.name)

PrintsVarOrLiteral(n) ==
  /\ stmts[n].tag \in {"Print", "PrintLn"}
  /\ stmts[n].expr # NoExpr
  /\ stmts[n].expr.tag \in {"String", "Int", "Var"}

\* C15: after the statements parsed so far, the parser's type table and the
\* one generate builds for them hold the same names, each with the type of
\* its most recent assignment; a Print / PrintLn of a variable or literal
\* selects syscall 4 exactly when that type is String and syscall 1 exactly
\* when it is Int
C15_TypesLastWriteWins ==
  parseResult # "error" =>
    /\ DOMAIN parser.var_types = AssignedNames(stmts)
    /\ DOMAIN LoweredUpTo(Len(stmts)).var_types = AssignedNames(stmts)
    /\ \A name \in AssignedNames(stmts) :
         /\ parser.var_types[name] = LastAssignedType(stmts, Len(stmts), name)
         /\ LoweredUpTo(Len(stmts)).var_types[name] = LastAssignedType(stmts, Len(stmts), name)
    /\ \A n \in 1..Len(stmts) :
         PrintsVarOrLiteral(n) =>
           /\ SelectsSyscall(LinesOfStmt(n), 4) <=> PrintedType(n) = TypeString
           /\ SelectsSyscall(LinesOfStmt(n), 1) <=> PrintedType(n) = TypeInt

\* x = 1; x = "a"; print x; has been parsed and lowered: x is a String in
\* both tables and the print selects syscall 4
C15_Witness ==
  /\ parseResult = "ok"
  /\ stmts = <<StmtAssign(NameX, ExprInt(1)), StmtAssign(NameX, ExprString(StrA)),
               StmtPrint(ExprVar(NameX))>>
  /\ parser.var_types[NameX] = TypeString
  /\ LoweredUpTo(3).var_types[NameX] = TypeString
  /\ SelectsSyscall(LinesOfStmt(3), 4)

----------------------------------------------------------------------------
(* Properties of the stack frame generate lays out                         *)

\* the statements generate's loop has lowered, nested bodies included, in
\* lowering order
LoweredStmts == AllStmts(SubSeq(program, 1, next_stmt - 1))

\* the names assigned in ss, each once, in the order of their first assignment
RECURSIVE FirstAssigned(_)
FirstAssigned(ss) ==
  IF ss = <<>> THEN <<>>
  ELSE LET before == FirstAssigned(SubSeq(ss, 1, Len(ss) - 1))
           s == ss[Len(ss)]
       IN  IF s.tag = "Assign" /\ ~InSeq(s.var, before) THEN Append(before, s.var) ELSE before

\* the offset of the k-th variable assigned
NthOffset(k) == 4 * (k - 1)

\* the offset a name gets from its rank in an order of first assignment
FixedOffset(order, name) == NthOffset(CHOOSE k \in 1..Len(order) : order[k] = name)

IsVariableAccess(line) ==
  /\ line.op \in {"lw", "sw"}
  /\ line.text # <<>>
  /\ line.text[1] \in {"# Load variable", "# Store variable"}

AccessedVariable(line) == SubSeq(line.text, 2, Len(line.text))

\* C16: after every statement lowered, vars holds the names assigned so far,
\* the k-th of them in first-assignment order at offset 4 * (k - 1), so that
\* distinct variables have distinct offsets and a re-assignment, of whatever
\* type, leaves the offset as it was; every load and store of a variable in
\* the output uses that offset
C16_SlotsInFirstAssignmentOrder ==
  phase \in {"running", "done"} =>
    LET order == FirstAssigned(LoweredStmts)
    IN  /\ DOMAIN codegen.vars = {order[k] : k \in 1..Len(order)}
        /\ \A k \in 1..Len(order) : codegen.vars[order[k]] = NthOffset(k)
        /\ codegen.var_offset = NthOffset(Len(order) + 1)
        /\ \A i \in 1..Len(codegen.output) :
             IsVariableAccess(codegen.output[i]) =>
               /\ InSeq(AccessedVariable(codegen.output[i]), order)
               /\ codegen.output[i].imm = FixedOffset(order, AccessedVariable(codegen.output[i]))

\* x, then y, then x again with another type have been assigned: x is still
\* at 0, y at 4
C16_Witness ==
  /\ phase = "running"
  /\ next_stmt = 4
  /\ program[1] = StmtAssign(NameX, ExprInt(1))
  /\ program[2].tag = "Assign" /\ program[2].var = NameY
  /\ program[3] = StmtAssign(NameX, ExprString(StrA))
  /\ codegen.vars[NameX] = 0
  /\ codegen.vars[NameY] = 4
  /\ codegen.var_types[NameX] = TypeString

----------------------------------------------------------------------------
(* Properties of the register pool                                         *)

Max2(a, b) == IF a >= b THEN a ELSE b

\* the temporaries lowering an expression needs live at once: 1 for a leaf,
\* max(need(left), 1 + need(right), 3) for a BinOp
RECURSIVE Need(_)
Need(e) ==
  CASE e.tag = "BinOp" -> Max2(Max2(Need(e.left), 1 + Need(e.right)), 3)
    [] e.tag = "UnaryOp" -> Need(e.expr)
    [] OTHER -> 1

\* the expressions of the statements lowered so far
LoweredExprs ==
  {IF LoweredStmts[i].tag \in {"While", "If"} THEN LoweredStmts[i].condition
   ELSE LoweredStmts[i].expr : i \in 1..Len(LoweredStmts)} \ {NoExpr}

\* C17: while no alloc_reg call has taken the spill path, reg_pool and the
\* registers allocated and not yet freed have made up t0..t6, each once, after
\* every alloc_reg and free_reg call, and after each statement the pool holds
\* all 7 registers; the spill path has been taken only if an expression
\* lowered needs more than 7 temporaries at once
C17_PoolPartitionsRegisters ==
  phase \in {"running", "done"} =>
    /\ ~codegen.spilled =>
         /\ codegen.partition
         /\ Len(codegen.reg_pool) = 7
         /\ \A i \in 1..Len(RegPoolInit) : InSeq(RegPoolInit[i], codegen.reg_pool)
    /\ codegen.spilled => \E e \in LoweredExprs : Need(e) > 7

\* three statements among which a While and an expression that needs four
\* registers have been lowered without a spill
C17_Witness ==
  /\ phase = "running"
  /\ next_stmt = 4
  /\ ~codegen.spilled
  /\ codegen.partition
  /\ \E e \in LoweredExprs : Need(e) = 4
  /\ \E i \in 1..Len(LoweredStmts) : LoweredStmts[i].tag = "While"
  /\ codegen.allocs >= 10

\* the offsets of the variable slots and of the spill slots in use
VariableSlots == {codegen.vars[name] : name \in DOMAIN codegen.vars}

SpillSlots ==
  {codegen.output[i].imm :
     i \in {j \in 1..Len(codegen.output) :
              /\ codegen.output[j].op = "sw"
              /\ codegen.output[j].text # <<>>
              /\ codegen.output[j].text[1] = "# Spill"}}

\* a 4-byte slot at offset lies in the frame of 512 bytes the prologue reserves
InFrame(offset) == 0 <= offset /\ offset + SlotSize <= FrameSize

\* C18: after every statement lowered, no spill slot is a variable slot, and
\* every slot of either kind lies inside the 512-byte frame
C18_StorageLocationsDisjoint ==
  phase = "running" =>
    /\ VariableSlots \cap SpillSlots = {}
    /\ \A offset \in VariableSlots \cup SpillSlots : InFrame(offset)

====
